---- MODULE Spec2Model ----
(***************************************************************************)
(* Model of the mod update pipeline of minecraft_mod_manager.              *)
(*                                                                         *)
(*   managers/mod.py   ModManager (make_request, _fetch_mod_info,          *)
(*                     update_mods, _backup_mod, _rollback_mod,            *)
(*                     _verify_server_startup, _update_single_mod)         *)
(*   services.py       retry_with_backoff, ModManager.execute_api_request, *)
(*                     ModManager._execute_single_mod_update               *)
(*   MinecraftModManager.py  the single-file revision of the same pipeline *)
(*                                                                         *)
(* File names are sequences of one-character tokens so that Path.stem,     *)
(* Path.suffix and str.split("_") are computed, not assumed.  A file is a  *)
(* record of its content (a number standing for the bytes, whose size is   *)
(* SizeOf) and its mtime.  The configuration object is taken as validated  *)
(* and as providing every attribute mod.py reads.                          *)
(*                                                                         *)
(*   Spec         one update_mods run of any of the three revisions        *)
(*   SpecResolve  _fetch_mod_info on every release list and target         *)
(*   SpecRequest  one registry request (make_request, retry_with_backoff)  *)
(*   SpecFetch    one fetch_latest_versions call, chunk by chunk           *)
(*   SpecRerun    a second update_mods run after a first one               *)
(*   SpecNotify   send_discord_notification, in its three revisions        *)
(*   SpecSession  the session of one ModManager object                     *)
(*   SpecMaint    run_automated_update / run_maintenance                   *)
(*   SpecConfig   settings/config.py  Config.from_dict                     *)
(*   SpecServer   controllers/server.py  ServerController.control          *)
(***************************************************************************)
EXTENDS Naturals, Sequences, FiniteSets, TLC

\* ------------------------------------------------------------------ bounds
MaxRuns == 1
MaxProbeTicks == 2
MaxKeep == 1
MaxReleases == 3
MaxRetriesCfg == 3
MaxBaseDelay == 2
MaxSources == 3
MaxChunk == 3
MaxCalls == 2
MaxExcess == 1
MaxEnters == 2
MaxWarnings == 2
MaxMissing == 2
MaxVariants == 2
MaxControls == 4
MaxSpawns == 2
MaxWaitLines == 2

\* --------------------------------------------------------------- constants
RATE_LIMIT_STATUS == 429
DISCORD_MAX_LENGTH == 2000

VARIABLES
    impl,              \* which revision of the pipeline runs
    max_mod_backups,   \* config.backup.max_mod_backups
    mods,              \* the mods directory: file name -> file
    bdirs,             \* per-mod backup directories: project name -> (name -> file)
    clock,             \* wall clock, in seconds
    run,               \* number of update_mods calls started
    phase,             \* position of update_mods
    mod_info,          \* the resolved mapping built by _fetch_mod_info
    res_failed,        \* failed_mods of fetch_latest_versions
    pc,                \* position of each source's task
    elapsed,           \* seconds each startup probe has waited
    updated_mods, skipped_mods, failed_mods, newly_added_mods,
    events,            \* per source: what its task has done so far, in order
    snap,              \* per source: the mods directory when its task started
    notes,             \* notifications sent, in order
    loopBlocked,       \* the event loop is stuck in a blocking call
    \* one call of _fetch_mod_info, past its two requests
    versions_data,     \* the release list the registry answered, in its order
    minecraft_version, minecraft_modloader,   \* config.minecraft
    resolved,          \* the mod_info mapping the call fills
    resolve_failed,    \* the failed_mods list the call fills
    resolve_pc,        \* position of the call
    \* one logical registry request
    req_impl,          \* which revision's request function runs
    max_retries, base_delay,                  \* config.mods
    retry_count,       \* make_request's retry_count argument
    attempt,           \* retry_with_backoff's loop variable
    answers,           \* the statuses the registry answered, in order
    sleeps,            \* the asyncio.sleep calls made, in order
    req_trace,         \* the sleeps and GETs of the request, in program order
    req_exc,           \* the exception the request raised
    req_pc,            \* position of the request
    \* one call of fetch_latest_versions
    fetch_impl,        \* which revision's function runs
    mod_sources,       \* the configured sources, in configuration order
    chunk_size,        \* config.mods.chunk_size
    responses,         \* what the registry answers for each endpoint
    chunk_start,       \* the loop variable i
    task,              \* state of the resolution task of each source
    dispatched,        \* how many times a task was created for each source
    version_info,      \* the mapping the tasks fill
    processing_failures,   \* the failure list the tasks fill
    pacing_delays,     \* number of sleeps taken between chunks
    fetch_pc,          \* position of the function
    \* what the previous run of update_mods left
    last_run,          \* its resolved mapping and its outcome lists
    \* one call of send_discord_notification
    notify_impl,       \* which revision's function runs
    webhook_url,       \* the configured webhook URL ("" when none)
    message_len,       \* length of the message argument
    posts,             \* the webhook requests sent: the description lengths
    logged,            \* the log lines written
    notify_pc,         \* position of the call
    \* one ModManager object and the calls made on it
    session,           \* self.session: 0 for None, else the number of the ClientSession
    in_context,        \* the caller is inside `async with manager:`
    opened,            \* ClientSession objects created so far
    closed,            \* the sessions that were closed
    net_requests,      \* GET requests issued through the session
    session_calls,     \* the calls made and how each one ended, in order
    \* one call of run_automated_update (run_maintenance in the first revision)
    maint_impl,        \* which revision's function runs
    maint_pc,          \* the step the function is about to take
    steps,             \* the component calls made and what each reported, in order
    server_up,         \* the server process is running
    maint_notes,       \* the notifications the function sent, in order
    maint_result,      \* how the call ended
    mods_touched,      \* the update stage has worked on the mods directory
    warning_intervals, \* number of configured maintenance.warning_intervals
    warnings_sent,     \* in-game warning messages sent
    \* one call of Config.from_dict
    data,              \* the input dictionary: dotted key -> value, for the keys it holds
    config,            \* the Config object built: flat field -> value
    config_pc,         \* position of the call
    \* one ServerController object and the control calls made on it
    process,           \* self.process: 0 for None, else the number of the Popen object
    alive,             \* the spawned processes that have not exited
    spawned,           \* Popen calls that created a process so far
    server_pc,         \* position of the control call in progress
    server_call,       \* the control call in progress
    waited,            \* lines _wait_for_startup has read without finding "Done"
    control_log        \* the control calls that returned, in order

pipeVars == <<impl, max_mod_backups, mods, bdirs, clock, run, phase, mod_info,
              res_failed, pc, elapsed, updated_mods, skipped_mods, failed_mods,
              newly_added_mods, events, snap, notes, loopBlocked>>

resolveVars == <<versions_data, minecraft_version, minecraft_modloader, resolved,
                 resolve_failed, resolve_pc>>

requestVars == <<req_impl, max_retries, base_delay, retry_count, attempt, answers,
                 sleeps, req_trace, req_exc, req_pc>>

fetchVars == <<fetch_impl, mod_sources, chunk_size, responses, chunk_start, task,
               dispatched, version_info, processing_failures, pacing_delays, fetch_pc>>

historyVars == <<last_run>>

notifyVars == <<notify_impl, webhook_url, message_len, posts, logged, notify_pc>>

sessionVars == <<session, in_context, opened, closed, net_requests, session_calls>>

maintVars == <<maint_impl, maint_pc, steps, server_up, maint_notes, maint_result,
               mods_touched, warning_intervals, warnings_sent>>

configVars == <<data, config, config_pc>>

serverVars == <<process, alive, spawned, server_pc, server_call, waited, control_log>>

\* the variables of the specifications above, and those of the ones below
earlyVars == <<pipeVars, resolveVars, requestVars, fetchVars, historyVars, notifyVars>>

lateVars == <<sessionVars, maintVars, configVars, serverVars>>

\* the variables a specification below leaves alone
exceptSession == <<earlyVars, maintVars, configVars, serverVars>>

exceptMaint == <<earlyVars, sessionVars, configVars, serverVars>>

exceptConfig == <<earlyVars, sessionVars, maintVars, serverVars>>

exceptServer == <<earlyVars, sessionVars, maintVars, configVars>>

vars == <<earlyVars, lateVars>>

\* ------------------------------------------------------------ file system
Range(s) == {s[i] : i \in DOMAIN s}

EmptyDir == [x \in {} |-> [content |-> 0, mtime |-> 0]]

Exists(dir, n) == n \in DOMAIN dir

PutFile(dir, n, f) == [x \in (DOMAIN dir) \cup {n} |-> IF x = n THEN f ELSE dir[x]]

Unlink(dir, n) == [x \in (DOMAIN dir) \ {n} |-> dir[x]]

SizeOf(content) == content

\* pathlib: the suffix starts at the last dot, unless that dot leads or ends the name
LastDot(n) ==
    LET ds == {i \in DOMAIN n : n[i] = "."}
    IN IF ds = {} THEN 0 ELSE CHOOSE i \in ds : \A j \in ds : j <= i

Suffix(n) ==
    LET i == LastDot(n)
    IN IF i > 1 /\ i < Len(n) THEN SubSeq(n, i, Len(n)) ELSE <<>>

Stem(n) ==
    LET i == LastDot(n)
    IN IF i > 1 /\ i < Len(n) THEN SubSeq(n, 1, i - 1) ELSE n

\* str.split("_")[0]
SplitFirst(n) ==
    LET us == {i \in DOMAIN n : n[i] = "_"}
    IN IF us = {} THEN n
       ELSE SubSeq(n, 1, (CHOOSE i \in us : \A j \in us : i <= j) - 1)

\* datetime.now().strftime("%Y%m%d_%H%M%S")
Strftime(t) == <<"D", "_", ToString(t)>>

\* ------------------------------------------------------------ configuration
\* config.minecraft.version, config.minecraft.modloader
TargetVersion == "1.20.1"
TargetLoader == "Fabric"

\* str.lower() on the loader names that occur
Lower(x) ==
    CASE x = "Fabric" -> "fabric"
      [] x = "FABRIC" -> "fabric"
      [] x = "Forge" -> "forge"
      [] OTHER -> x

\* ----------------------------------------------------------------- registry
Sources == {"s1", "s2"}

F_a == <<"a">>
F_aj == <<"a", ".", "j">>
F_bj == <<"b", ".", "j">>

Release(id, gvs, lds, fs) ==
    [id |-> id, version_number |-> id, game_versions |-> gvs, loaders |-> lds, files |-> fs]

RelA == Release("rA", {"1.20.1"}, <<"fabric">>, <<[filename |-> F_a, body |-> 2]>>)
RelAJ == Release("rAJ", {"1.20.1", "1.20"}, <<"forge", "FABRIC">>, <<[filename |-> F_aj, body |-> 3]>>)
RelBJ == Release("rBJ", {"1.20.1"}, <<"fabric">>, <<[filename |-> F_bj, body |-> 2]>>)
RelOld == Release("rOld", {"1.19.2"}, <<"fabric">>, <<[filename |-> F_bj, body |-> 4]>>)
RelForge == Release("rForge", {"1.20.1"}, <<"forge">>, <<[filename |-> F_a, body |-> 4]>>)
RelNoFiles == Release("rNone", {"1.20.1"}, <<"fabric">>, <<>>)

\* what GET /project/{id}/version can answer for a source of the pipeline
Registry(s) ==
    IF s = "s1" THEN {<<RelA>>, <<RelOld, RelBJ>>, <<RelOld>>}
    ELSE {<<RelAJ>>, <<RelNoFiles, RelAJ>>}

\* --------------------------------------------------------- managers/mod.py
\* the filter of _fetch_mod_info: the indices of the compatible versions, in order
IsCompatible(v, version, modloader) ==
    /\ version \in v.game_versions
    /\ \E i \in DOMAIN v.loaders : Lower(v.loaders[i]) = Lower(modloader)

CompatibleIdx(versions, version, modloader) ==
    {i \in DOMAIN versions : IsCompatible(versions[i], version, modloader)}

\* compatible_versions[-1]
LastCompatible(versions, version, modloader) ==
    LET c == {i \in DOMAIN versions :
                /\ version \in versions[i].game_versions
                /\ \E j \in DOMAIN versions[i].loaders :
                      Lower(versions[i].loaders[j]) = Lower(modloader)}
    IN IF c = {} THEN 0 ELSE CHOOSE i \in c : \A j \in c : j <= i

\* compatible_versions[0]: 0 when the filtered list is empty
FirstCompatible(versions, version, modloader) ==
    LET c == CompatibleIdx(versions, version, modloader)
    IN IF c = {} THEN 0 ELSE CHOOSE i \in c : \A j \in c : i <= j

\* the outcome of _fetch_mod_info once both requests have answered
\*   kind "ok": the entry stored in mod_info; "none": no compatible version;
\*   "raise": latest['files'][0] raised IndexError
fetch_mod_info(versions, mod_name, version, modloader) ==
    LET k == FirstCompatible(versions, version, modloader)
    IN IF k = 0 THEN [kind |-> "none"]
       ELSE IF versions[k].files = <<>> THEN [kind |-> "raise"]
       ELSE [kind |-> "ok",
             info |-> [version_id |-> versions[k].id,
                       version_number |-> versions[k].version_number,
                       body |-> versions[k].files[1].body,
                       filename |-> versions[k].files[1].filename,
                       project_name |-> mod_name]]

\* the registry's own filter for ?game_versions=[..]&loaders=[..]
ServerFiltered(versions, version, modloader) ==
    SelectSeq(versions, LAMBDA v : IsCompatible(v, version, modloader))

\* services.py _fetch_modrinth_mod_info: the first version the registry lists
fetch_modrinth_mod_info(versions, mod_name) ==
    IF versions = <<>> THEN [kind |-> "none"]
    ELSE IF versions[1].files = <<>> THEN [kind |-> "raise"]
    ELSE [kind |-> "ok",
          info |-> [version_id |-> versions[1].id,
                    version_number |-> versions[1].version_number,
                    body |-> versions[1].files[1].body,
                    filename |-> versions[1].files[1].filename,
                    project_name |-> mod_name]]

\* _backup_mod: the backup path of a mod file at time t
BackupPath(fname, t) == Stem(fname) \o <<"_">> \o Strftime(t) \o Suffix(fname)

\* _cleanup_old_backups: the directories that can remain (ties in mtime fall
\* in glob order, which the file system decides)
cleanup_old_backups(bd, keep) ==
    LET n == Cardinality(DOMAIN bd)
        k == IF keep < n THEN keep ELSE n
    IN {[x \in K |-> bd[x]] :
          K \in {K \in SUBSET (DOMAIN bd) :
                   /\ Cardinality(K) = k
                   /\ \A a \in K : \A d \in (DOMAIN bd) \ K : bd[a].mtime >= bd[d].mtime}}

\* _backup_mod after its copy succeeded: shutil.copy2 keeps the source's mtime
backup_mod(md, bd, fname, t, keep) ==
    cleanup_old_backups(PutFile(bd, BackupPath(fname, t), md[fname]), keep)

\* _rollback_mod: backups[0] of the mtime-descending sort
LatestBackups(bd) == {b \in DOMAIN bd : \A o \in DOMAIN bd : bd[o].mtime <= bd[b].mtime}

RollbackTarget(b) == SplitFirst(b)

\* _rollback_mod: what it returns and the mods directory it leaves.
\*   "false": no backup; "true": restored; "raise": shutil.copy2 raised after
\*   the unlink
rollback_mod(md, bd) ==
    IF DOMAIN bd = {} THEN {[ret |-> "false", mods |-> md]}
    ELSE UNION {{[ret |-> "true",
                  mods |-> PutFile(Unlink(md, RollbackTarget(b)), RollbackTarget(b), bd[b])],
                 [ret |-> "raise", mods |-> Unlink(md, RollbackTarget(b))]} :
                b \in LatestBackups(bd)}

\* project_data.get('title', project_id)
Title(s) == IF s = "s1" THEN "P1" ELSE "P2"

\* ---------------------------------------------------------------- handlers
\* Exceptions are named by their Python class.  Each handler is the set of
\* classes its except clause catches; every class raised here derives from
\* Exception.
Exceptions == {"RuntimeError", "IndexError", "OSError", "ClientError", "UnboundLocalError"}

\* narrower handlers: `except RuntimeError` in place of `except Exception`
fetch_catches_RuntimeError(exc) == exc = "RuntimeError"

update_catches_RuntimeError(exc) == exc = "RuntimeError"

\* an outer handler that only logs
update_single_mod_except_logs(fl, pn) == fl

\* mod.py:231  `except Exception` of _fetch_mod_info
fetch_catches(exc) == exc \in Exceptions

\* mod.py:441  `except Exception` of _update_single_mod
update_catches(exc) == exc \in Exceptions

\* mod.py:443-444: the entries of failed_mods are "<name> (<reason>)" strings,
\* <<name, reason>> here, and the handler looks for the bare name among them
update_single_mod_except(fl, pn) ==
    IF <<pn>> \in Range(fl) THEN fl ELSE Append(fl, <<pn, "error">>)

\* the inner handler of _update_single_mod (download, write or probe raised
\* exc): rollback, one entry, re-raise; a rollback that raises replaces exc
InnerExcept(md, bd, pn, fl, exc) ==
    {CASE r.ret = "true" ->
            [mods |-> r.mods, exc |-> exc,
             failed |-> Append(fl, <<pn, "update failed, rolled back">>)]
       [] r.ret = "false" ->
            [mods |-> r.mods, exc |-> exc,
             failed |-> Append(fl, <<pn, "update and rollback failed">>)]
       [] OTHER -> [mods |-> r.mods, exc |-> "OSError", failed |-> fl]
     : r \in rollback_mod(md, bd)}

\* _verify_server_startup returned False: rollback, one entry, return; a
\* rollback that raises lands in the inner handler
VerifyFalse(md, bd, pn, fl) ==
    UNION {CASE r.ret = "true" ->
                  {[mods |-> r.mods, exc |-> "none",
                    failed |-> Append(fl, <<pn, "incompatible - rolled back">>)]}
             [] r.ret = "false" ->
                  {[mods |-> r.mods, exc |-> "none",
                    failed |-> Append(fl, <<pn, "incompatible - rollback failed">>)]}
             [] OTHER -> InnerExcept(r.mods, bd, pn, fl, "OSError")
           : r \in rollback_mod(md, bd)}

\* every notification flagged as an error
Notify_as_error(ns, title, is_error) == Append(ns, [title |-> title, is_error |-> TRUE])

\* NotificationManager.send_discord_notification, as seen by its caller
Notify(ns, title, is_error) == Append(ns, [title |-> title, is_error |-> is_error])

Impls == {"managers", "services", "legacy"}

InitialDirs ==
    {EmptyDir,
     [x \in {F_a, F_aj} |-> [content |-> 1, mtime |-> 0]],
     [x \in {F_a, F_aj} |-> [content |-> IF x = F_a THEN 2 ELSE 3, mtime |-> 0]]}

NoInfo == [x \in {} |-> 0]

\* no call of _fetch_mod_info is being followed
ResolveIdle ==
    /\ versions_data = <<>>
    /\ minecraft_version = TargetVersion
    /\ minecraft_modloader = TargetLoader
    /\ resolved = NoInfo
    /\ resolve_failed = <<>>
    /\ resolve_pc = "idle"

\* fetch_latest_versions is not being followed
FetchIdle ==
    /\ fetch_impl = "managers"
    /\ mod_sources = <<>>
    /\ chunk_size = 1
    /\ responses = <<>>
    /\ chunk_start = 0
    /\ task = <<>>
    /\ dispatched = <<>>
    /\ version_info = NoInfo
    /\ processing_failures = <<>>
    /\ pacing_delays = 0
    /\ fetch_pc = "idle"

NoRun == [info |-> NoInfo, updated |-> <<>>, skipped |-> <<>>, added |-> <<>>,
          mods |-> EmptyDir]

\* no earlier run of update_mods
HistoryIdle == last_run = NoRun

\* send_discord_notification is not being followed
NotifyIdle ==
    /\ notify_impl = "managers"
    /\ webhook_url = ""
    /\ message_len = 0
    /\ posts = <<>>
    /\ logged = <<>>
    /\ notify_pc = "idle"

SessionIdle ==
    /\ session = 0
    /\ in_context = FALSE
    /\ opened = 0
    /\ closed = {}
    /\ net_requests = 0
    /\ session_calls = <<>>

MaintIdle ==
    /\ maint_impl = "manager"
    /\ maint_pc = "idle"
    /\ steps = <<>>
    /\ server_up = FALSE
    /\ maint_notes = <<>>
    /\ maint_result = "none"
    /\ mods_touched = FALSE
    /\ warning_intervals = 0
    /\ warnings_sent = 0

NoConfig == [f \in {} |-> 0]

ConfigIdle ==
    /\ data = NoConfig
    /\ config = NoConfig
    /\ config_pc = "idle"

\* no control call in progress
NoCall == [action |-> "none", running |-> FALSE, spawned |-> 0]

ServerIdle ==
    /\ process = 0
    /\ alive = {}
    /\ spawned = 0
    /\ server_pc = "idle"
    /\ server_call = NoCall
    /\ waited = 0
    /\ control_log = <<>>

LateIdle == SessionIdle /\ MaintIdle /\ ConfigIdle /\ ServerIdle

NoExc == [class |-> "none", msg |-> "none"]

\* no registry request is being followed
RequestIdle ==
    /\ req_impl = "managers"
    /\ max_retries = 0
    /\ base_delay = 1
    /\ retry_count = 0
    /\ attempt = 0
    /\ answers = <<>>
    /\ sleeps = <<>>
    /\ req_trace = <<>>
    /\ req_exc = NoExc
    /\ req_pc = "idle"

Init ==
    /\ ResolveIdle
    /\ RequestIdle
    /\ FetchIdle
    /\ HistoryIdle
    /\ NotifyIdle
    /\ LateIdle
    /\ impl \in Impls
    /\ max_mod_backups \in 0..MaxKeep
    /\ mods \in InitialDirs
    /\ bdirs = [n \in {Title(s) : s \in Sources} |-> EmptyDir]
    /\ clock = 1
    /\ run = 0
    /\ phase = "idle"
    /\ mod_info = NoInfo
    /\ res_failed = <<>>
    /\ pc = [s \in Sources |-> "none"]
    /\ elapsed = [s \in Sources |-> 0]
    /\ updated_mods = <<>>
    /\ skipped_mods = <<>>
    /\ failed_mods = <<>>
    /\ newly_added_mods = <<>>
    /\ events = [s \in Sources |-> <<>>]
    /\ snap = [s \in Sources |-> EmptyDir]
    /\ notes = <<>>
    /\ loopBlocked = FALSE

\* update_mods up to the dispatch of the resolution tasks
StartUpdate ==
    /\ phase \in {"idle", "returned"}
    /\ run < MaxRuns
    /\ run' = run + 1
    /\ clock' = clock + 1
    /\ phase' = "resolving"
    /\ mod_info' = NoInfo
    /\ res_failed' = <<>>
    /\ pc' = [s \in Sources |-> "resolve"]
    /\ events' = [s \in Sources |-> <<>>]
    /\ updated_mods' = <<>>
    /\ skipped_mods' = <<>>
    /\ failed_mods' = <<>>
    /\ newly_added_mods' = <<>>
    /\ notes' = <<>>
    /\ UNCHANGED <<impl, max_mod_backups, mods, bdirs, elapsed, snap, loopBlocked>>
    /\ UNCHANGED <<resolveVars, requestVars, fetchVars, historyVars, notifyVars, lateVars>>

\* an exception leaves a task of a gather: update_mods' handler (mod.py:274-277)
\* notifies the error and re-raises
UpdateModsRaises(s, e) ==
    /\ pc' = [pc EXCEPT ![s] = "raised"]
    /\ events' = [events EXCEPT ![s] = @ \o e]
    /\ phase' = "raised"
    /\ notes' = Notify(notes, "Mod Update Error", TRUE)

\* _fetch_mod_info for one source: a request raised, or both answered
FetchModInfo(s) ==
    /\ phase = "resolving"
    /\ pc[s] = "resolve"
    /\ \/ \* make_request raised
          IF fetch_catches("RuntimeError")
          THEN /\ res_failed' = Append(res_failed, <<s, "error">>)
               /\ pc' = [pc EXCEPT ![s] = "resolved"]
               /\ UNCHANGED <<mod_info, events, phase, notes>>
          ELSE /\ UpdateModsRaises(s, <<>>)
               /\ UNCHANGED <<mod_info, res_failed>>
       \/ \E versions \in Registry(s) :
            LET r == IF impl = "services"
                     THEN fetch_modrinth_mod_info(
                              ServerFiltered(versions, TargetVersion, TargetLoader), Title(s))
                     ELSE fetch_mod_info(versions, Title(s), TargetVersion, TargetLoader)
            IN CASE r.kind = "ok" ->
                      /\ mod_info' = [x \in (DOMAIN mod_info) \cup {s} |->
                                        IF x = s THEN r.info ELSE mod_info[x]]
                      /\ pc' = [pc EXCEPT ![s] = "resolved"]
                      /\ UNCHANGED <<res_failed, events, phase, notes>>
                 [] r.kind = "none" ->
                      /\ res_failed' = Append(res_failed, <<Title(s), "no compatible version">>)
                      /\ pc' = [pc EXCEPT ![s] = "resolved"]
                      /\ UNCHANGED <<mod_info, events, phase, notes>>
                 [] OTHER ->
                      IF fetch_catches("IndexError")
                      THEN /\ res_failed' = Append(res_failed, <<s, "list index out of range">>)
                           /\ pc' = [pc EXCEPT ![s] = "resolved"]
                           /\ UNCHANGED <<mod_info, events, phase, notes>>
                      ELSE /\ UpdateModsRaises(s, <<>>)
                           /\ UNCHANGED <<mod_info, res_failed>>
    /\ UNCHANGED <<impl, max_mod_backups, mods, bdirs, clock, run, elapsed,
                   updated_mods, skipped_mods, failed_mods, newly_added_mods,
                   snap, loopBlocked>>
    /\ UNCHANGED <<resolveVars, requestVars, fetchVars, historyVars, notifyVars, lateVars>>

\* fetch_latest_versions returns; update_mods dispatches the execution tasks
FinishFetch ==
    /\ phase = "resolving"
    /\ \A s \in Sources : pc[s] = "resolved"
    /\ LET n1 == IF res_failed # <<>> /\ impl # "services"
                 THEN Notify(notes, "Mod Update Issues", TRUE) ELSE notes
       IN IF DOMAIN mod_info = {}
          THEN /\ notes' = IF impl = "services" THEN n1 ELSE Notify(n1, "Mod Updates", FALSE)
               /\ phase' = "returned"
               /\ pc' = [s \in Sources |-> "none"]
          ELSE /\ notes' = n1
               /\ phase' = "executing"
               /\ pc' = [s \in Sources |-> IF s \in DOMAIN mod_info THEN "planned" ELSE "none"]
    /\ UNCHANGED <<impl, max_mod_backups, mods, bdirs, clock, run, mod_info, res_failed,
                   elapsed, updated_mods, skipped_mods, failed_mods, newly_added_mods,
                   events, snap, loopBlocked>>
    /\ UNCHANGED <<resolveVars, requestVars, fetchVars, historyVars, notifyVars, lateVars>>

Running(s) == phase = "executing" /\ ~loopBlocked

\* a task ends in its function's outermost handler, or past it
\*   r.exc = "none": it returned; otherwise r.exc reached the handler, which
\*   catches it (failed_mods becomes handled) or lets it leave the task;
\*   sn is the record of the directories the tasks started with
TaskEnds(s, e, r, catches, handled, sn) ==
    /\ mods' = r.mods
    /\ snap' = sn
    /\ IF r.exc = "none" \/ catches
       THEN /\ failed_mods' = IF r.exc = "none" THEN r.failed ELSE handled
            /\ pc' = [pc EXCEPT ![s] = "done"]
            /\ events' = [events EXCEPT ![s] = @ \o e]
            /\ UNCHANGED <<phase, notes>>
       ELSE /\ failed_mods' = r.failed
            /\ UpdateModsRaises(s, e)
    /\ UNCHANGED <<impl, max_mod_backups, bdirs, clock, run, mod_info, res_failed,
                   elapsed, updated_mods, skipped_mods, newly_added_mods, loopBlocked>>

\* ModManager._update_single_mod ends with result r
TaskFails(s, e, r) ==
    TaskEnds(s, e, r, update_catches(r.exc),
             update_single_mod_except(r.failed, mod_info[s].project_name), snap)

\* _update_single_mod, step 1: up to the download GET
StartTask(s) ==
    /\ impl = "managers"
    /\ Running(s)
    /\ pc[s] = "planned"
    /\ LET f == mod_info[s].filename
           pn == mod_info[s].project_name
       IN IF Exists(mods, f)
          THEN \/ \* shutil.copy2 raised: the outer handler
                  TaskEnds(s, <<"backup_failed">>,
                           [mods |-> mods, failed |-> failed_mods, exc |-> "OSError"],
                           update_catches("OSError"),
                           update_single_mod_except(failed_mods, pn),
                           [snap EXCEPT ![s] = mods])
               \/ \E bd \in backup_mod(mods, bdirs[pn], f, clock, max_mod_backups) :
                    /\ bdirs' = [bdirs EXCEPT ![pn] = bd]
                    /\ pc' = [pc EXCEPT ![s] = "get"]
                    /\ events' = [events EXCEPT ![s] = @ \o <<"backup", "get">>]
                    /\ snap' = [snap EXCEPT ![s] = mods]
                    /\ UNCHANGED <<impl, max_mod_backups, mods, clock, run, phase,
                                   mod_info, res_failed, elapsed, updated_mods,
                                   skipped_mods, failed_mods, newly_added_mods, notes,
                                   loopBlocked>>
          ELSE /\ pc' = [pc EXCEPT ![s] = "get"]
               /\ events' = [events EXCEPT ![s] = @ \o <<"get">>]
               /\ snap' = [snap EXCEPT ![s] = mods]
               /\ UNCHANGED <<impl, max_mod_backups, mods, bdirs, clock, run, phase,
                              mod_info, res_failed, elapsed, updated_mods,
                              skipped_mods, failed_mods, newly_added_mods, notes,
                              loopBlocked>>
    /\ UNCHANGED <<resolveVars, requestVars, fetchVars, historyVars, notifyVars, lateVars>>

DownloadStatuses == {200, 204, 404, 500}

StatusEvent(status) == IF status \in 200..299 THEN "get_2xx" ELSE "get_non2xx"

\* a written file: the body, stamped with the time of the write
Written(body, t) == [content |-> body, mtime |-> t]

\* the task wrote its file and goes on at position p
TaskWrites(s, e, body, p) ==
    /\ mods' = PutFile(mods, mod_info[s].filename, Written(body, clock))
    /\ clock' = clock + 1
    /\ pc' = [pc EXCEPT ![s] = p]
    /\ events' = [events EXCEPT ![s] = @ \o e]
    /\ UNCHANGED <<impl, max_mod_backups, bdirs, run, phase, mod_info, res_failed,
                   elapsed, skipped_mods, failed_mods, newly_added_mods, snap, notes,
                   loopBlocked>>

\* _update_single_mod, step 2: the download GET answers
GetResponse(s) ==
    /\ impl = "managers"
    /\ Running(s)
    /\ pc[s] = "get"
    /\ LET pn == mod_info[s].project_name
       IN \/ \* the connection failed
             \E r \in InnerExcept(mods, bdirs[pn], pn, failed_mods, "ClientError") :
                TaskFails(s, <<"get_error">>, r)
          \/ \E status \in DownloadStatuses :
               IF status # 200
               THEN \E r \in InnerExcept(mods, bdirs[pn], pn, failed_mods, "RuntimeError") :
                       TaskFails(s, <<StatusEvent(status)>>, r)
               ELSE \/ \* write_bytes raised before writing
                       \E r \in InnerExcept(mods, bdirs[pn], pn, failed_mods, "OSError") :
                          TaskFails(s, <<"write_failed">>, r)
                    \/ /\ TaskWrites(s, <<"write">>, mod_info[s].body, "verify")
                       /\ UNCHANGED updated_mods
    /\ UNCHANGED <<resolveVars, requestVars, fetchVars, historyVars, notifyVars, lateVars>>

\* _verify_server_startup returned True: the tail of _update_single_mod
TaskSucceeds(s, e) ==
    LET f == mod_info[s].filename
        pn == mod_info[s].project_name
    IN /\ IF ~Exists(mods, f)
          THEN /\ newly_added_mods' = Append(newly_added_mods, pn)
               /\ UNCHANGED updated_mods
          ELSE /\ updated_mods' = Append(updated_mods, pn)
               /\ UNCHANGED newly_added_mods
       /\ pc' = [pc EXCEPT ![s] = "done"]
       /\ events' = [events EXCEPT ![s] = @ \o e]
       /\ UNCHANGED <<impl, max_mod_backups, mods, bdirs, clock, run, phase, mod_info,
                      res_failed, elapsed, skipped_mods, failed_mods, snap, notes,
                      loopBlocked>>

\* _verify_server_startup after its wait loop: terminate, wait(timeout=30)
ProbeTerminate(s, e) ==
    LET pn == mod_info[s].project_name
    IN \/ TaskSucceeds(s, e \o <<"verified">>)
       \/ \* process.wait raised TimeoutExpired: the probe returns False
          \E r \in VerifyFalse(mods, bdirs[pn], pn, failed_mods) :
             TaskFails(s, e \o <<"wait_expired">>, r)

\* _verify_server_startup: subprocess.Popen
VerifyStart(s) ==
    /\ impl = "managers"
    /\ Running(s)
    /\ pc[s] = "verify"
    /\ LET pn == mod_info[s].project_name
       IN \/ \* Popen raised: the finally clause reads the unbound `process`
             \E r \in InnerExcept(mods, bdirs[pn], pn, failed_mods, "UnboundLocalError") :
                TaskFails(s, <<"probe_raised">>, r)
          \/ /\ pc' = [pc EXCEPT ![s] = "probe"]
             /\ elapsed' = [elapsed EXCEPT ![s] = 0]
             /\ events' = [events EXCEPT ![s] = @ \o <<"probe">>]
             /\ UNCHANGED <<impl, max_mod_backups, mods, bdirs, clock, run, phase,
                            mod_info, res_failed, updated_mods, skipped_mods,
                            failed_mods, newly_added_mods, snap, notes, loopBlocked>>
    /\ UNCHANGED <<resolveVars, requestVars, fetchVars, historyVars, notifyVars, lateVars>>

\* _verify_server_startup: one pass of the wait loop
ProbeIter(s) ==
    /\ impl = "managers"
    /\ Running(s)
    /\ pc[s] = "probe"
    /\ elapsed[s] < MaxProbeTicks
    /\ LET pn == mod_info[s].project_name
       IN \/ \* process.poll() is not None
             \E r \in VerifyFalse(mods, bdirs[pn], pn, failed_mods) :
                TaskFails(s, <<"exited">>, r)
          \/ \* the line read holds "Done"
             ProbeTerminate(s, <<"healthy">>)
          \/ \* another line: asyncio.sleep(1)
             /\ elapsed' = [elapsed EXCEPT ![s] = @ + 1]
             /\ UNCHANGED <<impl, max_mod_backups, mods, bdirs, clock, run, phase,
                            mod_info, res_failed, pc, updated_mods, skipped_mods,
                            failed_mods, newly_added_mods, events, snap, notes,
                            loopBlocked>>
          \/ \* no line comes: readline blocks the event loop
             /\ loopBlocked' = TRUE
             /\ UNCHANGED <<impl, max_mod_backups, mods, bdirs, clock, run, phase,
                            mod_info, res_failed, pc, elapsed, updated_mods,
                            skipped_mods, failed_mods, newly_added_mods, events, snap,
                            notes>>
    /\ UNCHANGED <<resolveVars, requestVars, fetchVars, historyVars, notifyVars, lateVars>>

\* _verify_server_startup: the 60 seconds are over, the loop ends without break
ProbeTimeout(s) ==
    /\ impl = "managers"
    /\ Running(s)
    /\ pc[s] = "probe"
    /\ elapsed[s] >= MaxProbeTicks
    /\ ProbeTerminate(s, <<"timeout">>)
    /\ UNCHANGED <<resolveVars, requestVars, fetchVars, historyVars, notifyVars, lateVars>>

\* _send_update_summary of each revision (services.py only logs)
send_update_summary(ns) ==
    CASE impl = "managers" ->
           IF updated_mods # <<>> \/ skipped_mods # <<>> \/ failed_mods # <<>>
           THEN Notify(ns, "Mod Updates", FALSE) ELSE ns
      [] impl = "legacy" -> Notify(ns, "Mod Update Summary", FALSE)
      [] OTHER -> ns

\* the failures the aggregate report of the step lists: none in the text of
\* update_mods when nothing was resolved, the failed_mods argument in
\* _send_update_summary
ReportedFailed == IF phase = "resolving" THEN <<>> ELSE failed_mods

\* update_mods after the gather
Summary ==
    /\ phase = "executing"
    /\ ~loopBlocked
    /\ \A s \in Sources : pc[s] \in {"done", "none"}
    /\ notes' = send_update_summary(notes)
    /\ phase' = "returned"
    /\ UNCHANGED <<impl, max_mod_backups, mods, bdirs, clock, run, mod_info, res_failed,
                   pc, elapsed, updated_mods, skipped_mods, failed_mods,
                   newly_added_mods, events, snap, loopBlocked>>
    /\ UNCHANGED <<resolveVars, requestVars, fetchVars, historyVars, notifyVars, lateVars>>

\* ------------------------------------------------------------- services.py
\* services.py:422  `except Exception` of _execute_single_mod_update
execute_catches(exc) == exc \in Exceptions

\* services.py:424
execute_single_mod_update_except(fl, pn) == Append(fl, <<pn, "error">>)

\* services.py:409  target_path.with_suffix(".backup.<timestamp>")
ServicesBackupPath(fname, t) == Stem(fname) \o <<".", "backup", ".">> \o Strftime(t)

ServicesFails(s, e, exc, sn) ==
    TaskEnds(s, e, [mods |-> mods, failed |-> failed_mods, exc |-> exc],
             execute_catches(exc),
             execute_single_mod_update_except(failed_mods, mod_info[s].project_name), sn)

\* _execute_single_mod_update up to the download GET
ServicesStart(s) ==
    /\ impl = "services"
    /\ Running(s)
    /\ pc[s] = "planned"
    /\ LET f == mod_info[s].filename
       IN IF Exists(mods, f)
          THEN \/ \* shutil.copy2 raised
                  ServicesFails(s, <<"backup_failed">>, "OSError", [snap EXCEPT ![s] = mods])
               \/ /\ mods' = PutFile(mods, ServicesBackupPath(f, clock), mods[f])
                  /\ pc' = [pc EXCEPT ![s] = "get"]
                  /\ events' = [events EXCEPT ![s] = @ \o <<"backup", "get">>]
                  /\ snap' = [snap EXCEPT ![s] = mods]
                  /\ UNCHANGED <<impl, max_mod_backups, bdirs, clock, run, phase,
                                 mod_info, res_failed, elapsed, updated_mods,
                                 skipped_mods, failed_mods, newly_added_mods, notes,
                                 loopBlocked>>
          ELSE /\ pc' = [pc EXCEPT ![s] = "get"]
               /\ events' = [events EXCEPT ![s] = @ \o <<"get">>]
               /\ snap' = [snap EXCEPT ![s] = mods]
               /\ UNCHANGED <<impl, max_mod_backups, mods, bdirs, clock, run, phase,
                              mod_info, res_failed, elapsed, updated_mods,
                              skipped_mods, failed_mods, newly_added_mods, notes,
                              loopBlocked>>
    /\ UNCHANGED <<resolveVars, requestVars, fetchVars, historyVars, notifyVars, lateVars>>

\* _execute_single_mod_update: the download GET answers
ServicesGet(s) ==
    /\ impl = "services"
    /\ Running(s)
    /\ pc[s] = "get"
    /\ \/ ServicesFails(s, <<"get_error">>, "ClientError", snap)
       \/ \E status \in DownloadStatuses :
            IF status # 200
            THEN ServicesFails(s, <<StatusEvent(status)>>, "RuntimeError", snap)
            ELSE \/ ServicesFails(s, <<"write_failed">>, "OSError", snap)
                 \/ /\ TaskWrites(s, <<"write">>, mod_info[s].body, "done")
                    /\ updated_mods' = Append(updated_mods, mod_info[s].project_name)
    /\ UNCHANGED <<resolveVars, requestVars, fetchVars, historyVars, notifyVars, lateVars>>

\* ---------------------------------------------------- MinecraftModManager.py
\* MinecraftModManager.py:344  `except Exception` of _update_single_mod
legacy_catches(exc) == exc \in Exceptions

\* MinecraftModManager.py:345
legacy_update_single_mod_except(fl, pn) == Append(fl, <<pn, "error">>)

LegacyFails(s, e, md, exc) ==
    TaskEnds(s, e, [mods |-> md, failed |-> failed_mods, exc |-> exc],
             legacy_catches(exc),
             legacy_update_single_mod_except(failed_mods, mod_info[s].project_name), snap)

\* the body a download GET delivers: the release file, or the error page
ResponseBody(s, status) == IF status = 200 THEN mod_info[s].body ELSE 9

\* what a HEAD of the download URL can report as content-length (0: no header)
HeadLengths(s) == {SizeOf(mod_info[s].body), 0}

\* _update_single_mod up to its first request
LegacyStart(s) ==
    /\ impl = "legacy"
    /\ Running(s)
    /\ pc[s] = "planned"
    /\ snap' = [snap EXCEPT ![s] = mods]
    /\ IF Exists(mods, mod_info[s].filename)
       THEN /\ pc' = [pc EXCEPT ![s] = "head"]
            /\ events' = [events EXCEPT ![s] = @ \o <<"head">>]
            /\ UNCHANGED newly_added_mods
       ELSE /\ pc' = [pc EXCEPT ![s] = "get"]
            /\ events' = [events EXCEPT ![s] = @ \o <<"get">>]
            /\ newly_added_mods' = Append(newly_added_mods, mod_info[s].project_name)
    /\ UNCHANGED <<impl, max_mod_backups, mods, bdirs, clock, run, phase, mod_info,
                   res_failed, elapsed, updated_mods, skipped_mods, failed_mods,
                   notes, loopBlocked>>
    /\ UNCHANGED <<resolveVars, requestVars, fetchVars, historyVars, notifyVars, lateVars>>

\* _update_single_mod: the HEAD answers; current_size was read before it
LegacyHead(s) ==
    /\ impl = "legacy"
    /\ Running(s)
    /\ pc[s] = "head"
    /\ LET f == mod_info[s].filename
           current_size == SizeOf(snap[s][f].content)
       IN \/ LegacyFails(s, <<"head_error">>, mods, "ClientError")
          \/ \E new_size \in HeadLengths(s) :
               LET hd == IF new_size = 0 THEN <<"no_length">> ELSE <<>>
               IN
               IF current_size = new_size
               THEN /\ skipped_mods' = Append(skipped_mods, mod_info[s].project_name)
                    /\ pc' = [pc EXCEPT ![s] = "done"]
                    /\ events' = [events EXCEPT ![s] = @ \o hd \o <<"skip">>]
                    /\ UNCHANGED <<impl, max_mod_backups, mods, bdirs, clock, run,
                                   phase, mod_info, res_failed, elapsed, updated_mods,
                                   failed_mods, newly_added_mods, snap, notes,
                                   loopBlocked>>
               ELSE \/ \* "sudo rm" failed: _run_command raises RuntimeError
                       LegacyFails(s, hd \o <<"rm_failed">>, mods, "RuntimeError")
                    \/ /\ mods' = Unlink(mods, f)
                       /\ pc' = [pc EXCEPT ![s] = "get"]
                       /\ events' = [events EXCEPT ![s] = @ \o hd \o <<"rm", "get">>]
                       /\ UNCHANGED <<impl, max_mod_backups, bdirs, clock, run, phase,
                                      mod_info, res_failed, elapsed, updated_mods,
                                      skipped_mods, failed_mods, newly_added_mods,
                                      snap, notes, loopBlocked>>
    /\ UNCHANGED <<resolveVars, requestVars, fetchVars, historyVars, notifyVars, lateVars>>

\* _update_single_mod: the download GET answers; its status is not looked at
LegacyGet(s) ==
    /\ impl = "legacy"
    /\ Running(s)
    /\ pc[s] = "get"
    /\ \/ LegacyFails(s, <<"get_error">>, mods, "ClientError")
       \/ \E status \in DownloadStatuses :
            \/ LegacyFails(s, <<StatusEvent(status), "write_failed">>, mods, "OSError")
            \/ /\ TaskWrites(s, <<StatusEvent(status), "write">>,
                             ResponseBody(s, status), "done")
               /\ updated_mods' = Append(updated_mods, mod_info[s].project_name)
    /\ UNCHANGED <<resolveVars, requestVars, fetchVars, historyVars, notifyVars, lateVars>>

Next ==
    \/ StartUpdate
    \/ \E s \in Sources : FetchModInfo(s)
    \/ FinishFetch
    \/ \E s \in Sources : StartTask(s)
    \/ \E s \in Sources : GetResponse(s)
    \/ \E s \in Sources : VerifyStart(s)
    \/ \E s \in Sources : ProbeIter(s)
    \/ \E s \in Sources : ProbeTimeout(s)
    \/ \E s \in Sources : ServicesStart(s)
    \/ \E s \in Sources : ServicesGet(s)
    \/ \E s \in Sources : LegacyStart(s)
    \/ \E s \in Sources : LegacyHead(s)
    \/ \E s \in Sources : LegacyGet(s)
    \/ Summary

Spec == Init /\ [][Next]_vars

\* ------------------------------------------------- update_mods, called again
\* update_mods is called again after a run in which no mod failed: the
\* directories are as the first run left them, the lists and the mapping are
\* new locals
Rerun ==
    /\ phase = "returned"
    /\ run = MaxRuns
    /\ last_run = NoRun
    /\ res_failed = <<>>
    /\ failed_mods = <<>>
    /\ last_run' = [info |-> mod_info, updated |-> updated_mods, skipped |-> skipped_mods,
                    added |-> newly_added_mods, mods |-> mods]
    /\ run' = run + 1
    /\ clock' = clock + 1
    /\ phase' = "resolving"
    /\ mod_info' = NoInfo
    /\ res_failed' = <<>>
    /\ pc' = [s \in Sources |-> "resolve"]
    /\ events' = [s \in Sources |-> <<>>]
    /\ updated_mods' = <<>>
    /\ skipped_mods' = <<>>
    /\ failed_mods' = <<>>
    /\ newly_added_mods' = <<>>
    /\ notes' = <<>>
    /\ UNCHANGED <<impl, max_mod_backups, mods, bdirs, elapsed, snap, loopBlocked>>
    /\ UNCHANGED <<resolveVars, requestVars, fetchVars, notifyVars, lateVars>>

NextRerun == Next \/ Rerun

SpecRerun == Init /\ [][NextRerun]_vars

\* ------------------------------------- update_mods on an unusable environment
\* the exceptions raised before any task exists: RuntimeError when the
\* session is None, ValueError when range() is given a chunk size of 0
InfraExceptions == {"RuntimeError", "ValueError"}

\* a narrower handler: `except RuntimeError` in place of `except Exception`
update_mods_catches_RuntimeError(exc) == exc = "RuntimeError"

\* `except Exception` of update_mods
update_mods_catches(exc) == exc \in Exceptions \cup InfraExceptions

\* update_mods whose fetch_latest_versions raises before it creates a task:
\* the handler notifies and re-raises (services.py has no handler; the
\* legacy script opens its own session)
UpdateAborts ==
    /\ phase \in {"idle", "returned"}
    /\ run < MaxRuns
    /\ \E exc \in InfraExceptions :
          /\ impl = "legacy" => exc = "ValueError"
          /\ notes' = IF impl # "services" /\ update_mods_catches(exc)
                          THEN Notify(<<>>, "Mod Update Error", TRUE)
                          ELSE <<>>
    /\ phase' = "raised"
    /\ run' = run + 1
    /\ mod_info' = NoInfo
    /\ res_failed' = <<>>
    /\ pc' = [s \in Sources |-> "none"]
    /\ events' = [s \in Sources |-> <<>>]
    /\ updated_mods' = <<>>
    /\ skipped_mods' = <<>>
    /\ failed_mods' = <<>>
    /\ newly_added_mods' = <<>>
    /\ UNCHANGED <<impl, max_mod_backups, mods, bdirs, clock, elapsed, snap, loopBlocked>>
    /\ UNCHANGED <<resolveVars, requestVars, fetchVars, historyVars, notifyVars, lateVars>>

NextInfra == Next \/ UpdateAborts

SpecInfra == Init /\ [][NextInfra]_vars

\* every step that can be taken is taken in the end: the event loop runs the
\* tasks that are ready, and every awaited request, process and sleep ends
SpecLive == Init /\ [][Next]_vars /\ WF_vars(Next)

\* the pipeline at rest
PipelineIdle ==
    /\ impl = "managers"
    /\ max_mod_backups = 0
    /\ mods = EmptyDir
    /\ bdirs = [n \in {Title(s) : s \in Sources} |-> EmptyDir]
    /\ clock = 1
    /\ run = 0
    /\ phase = "idle"
    /\ mod_info = NoInfo
    /\ res_failed = <<>>
    /\ pc = [s \in Sources |-> "none"]
    /\ elapsed = [s \in Sources |-> 0]
    /\ updated_mods = <<>>
    /\ skipped_mods = <<>>
    /\ failed_mods = <<>>
    /\ newly_added_mods = <<>>
    /\ events = [s \in Sources |-> <<>>]
    /\ snap = [s \in Sources |-> EmptyDir]
    /\ notes = <<>>
    /\ loopBlocked = FALSE

\* ------------------------------------------------ send_discord_notification
\* the lengths of the messages handed to the notifier
MessageLengths ==
    {0} \cup ((DISCORD_MAX_LENGTH - 1) .. (DISCORD_MAX_LENGTH + MaxExcess))

\* what the webhook request ends with: an HTTP status, or an exception of the
\* HTTP library (requests.Timeout is a requests.RequestException)
WebhookStatuses == {200, 204, 400, 500}

PostOutcomes ==
    {[status |-> st, exc |-> "none"] : st \in WebhookStatuses}
        \cup {[status |-> 0, exc |-> e] : e \in {"Timeout", "ConnectionError"}}

\* response.status_code in (200, 204)
Delivered(outcome) == outcome.exc = "none" /\ outcome.status \in {200, 204}

\* notification.py:43-44  message[:DISCORD_MAX_LENGTH - 3] + "..."
\* (MinecraftModManager.py:587  message[:1997] + "..." if len(message) > 2000)
truncate(len) ==
    IF len > DISCORD_MAX_LENGTH THEN (DISCORD_MAX_LENGTH - 3) + 3 ELSE len

\* the exception the body of the try ends with, "none" when it ends normally
\* notification.py:65-66 and services.py:509-510 raise RuntimeError on a status
\* other than 200 and 204; MinecraftModManager.py:601-602 logs it instead
try_raises(i, outcome) ==
    IF outcome.exc # "none" THEN outcome.exc
    ELSE IF ~Delivered(outcome) /\ i # "legacy" THEN "RuntimeError"
    ELSE "none"

\* a last handler that is `except requests.RequestException`
notification_catches_RequestException(exc) ==
    exc \in {"Timeout", "ConnectionError"}

\* the last handler, `except Exception`
\* (notification.py:72, services.py:512, MinecraftModManager.py:604)
notification_catches(exc) ==
    exc \in {"Timeout", "ConnectionError", "RuntimeError"}

\* the line the handlers log for exc, "uncaught" when no handler takes it
\* notification.py:68-73: requests.Timeout, requests.RequestException, Exception
handler_logs(i, exc) ==
    IF i = "managers" /\ exc = "Timeout"
    THEN "Discord notification timed out"
    ELSE IF i = "managers" /\ exc = "ConnectionError"
    THEN "Discord API request failed"
    ELSE IF notification_catches(exc)
    THEN "Failed to send Discord notification"
    ELSE "uncaught"

Logged(q, level, text) == Append(q, [level |-> level, text |-> text])

InitNotify ==
    /\ PipelineIdle
    /\ ResolveIdle
    /\ RequestIdle
    /\ FetchIdle
    /\ HistoryIdle
    /\ LateIdle
    /\ notify_impl \in Impls
    /\ webhook_url \in {"", "https://discord/webhook"}
    /\ message_len = 0
    /\ posts = <<>>
    /\ logged = <<>>
    /\ notify_pc = "idle"

\* one call of send_discord_notification (notification.py:28-73), of
\* dispatch_discord_message (services.py:485-513) or of the first revision's
\* send_discord_notification (MinecraftModManager.py:577-605)
SendDiscordNotification ==
    /\ notify_pc \in {"idle", "returned"}
    /\ Len(posts) < MaxCalls
    /\ Len(logged) < MaxCalls
    /\ \E len \in MessageLengths, is_error \in BOOLEAN, outcome \in PostOutcomes :
         /\ message_len' = len
         /\ IF webhook_url = ""
            THEN /\ posts' = posts
                 /\ logged' = IF notify_impl = "legacy" THEN logged
                              ELSE Logged(logged, "debug", "Discord notifications disabled")
                 /\ notify_pc' = "returned"
            ELSE LET exc == try_raises(notify_impl, outcome)
                     line == handler_logs(notify_impl, exc)
                 IN /\ posts' = Append(posts, [url |-> webhook_url,
                                               description_len |-> truncate(len),
                                               is_error |-> is_error,
                                               outcome |-> outcome])
                    /\ CASE exc = "none" /\ Delivered(outcome) ->
                              /\ logged' = logged
                              /\ notify_pc' = "returned"
                         [] exc = "none" ->
                              /\ logged' = Logged(logged, "error", "Discord API error")
                              /\ notify_pc' = "returned"
                         [] exc # "none" /\ line # "uncaught" ->
                              /\ logged' = Logged(logged, "error", line)
                              /\ notify_pc' = "returned"
                         [] OTHER ->
                              /\ logged' = logged
                              /\ notify_pc' = "raised"
    /\ UNCHANGED <<notify_impl, webhook_url>>
    /\ UNCHANGED <<pipeVars, resolveVars, requestVars, fetchVars, historyVars, lateVars>>

NextNotify == SendDiscordNotification

SpecNotify == InitNotify /\ [][NextNotify]_vars

\* ------------------------------------------------- the session of ModManager
EarlyIdle ==
    /\ PipelineIdle
    /\ ResolveIdle
    /\ RequestIdle
    /\ FetchIdle
    /\ HistoryIdle
    /\ NotifyIdle

IdleExceptSession == EarlyIdle /\ MaintIdle /\ ConfigIdle /\ ServerIdle

IdleExceptMaint == EarlyIdle /\ SessionIdle /\ ConfigIdle /\ ServerIdle

IdleExceptConfig == EarlyIdle /\ SessionIdle /\ MaintIdle /\ ServerIdle

IdleExceptServer == EarlyIdle /\ SessionIdle /\ MaintIdle /\ ConfigIdle

\* self.session is None (mod.py:69)
NoSession == 0

\* a guard that lets every call through
session_never_missing(s) == FALSE

\* mod.py:95, 128  `if not self.session:`
session_missing(s) == s = NoSession

SessionCall(fn, result) == [fn |-> fn, result |-> result]

\* ModManager.__init__ (mod.py:65-74)
InitSession ==
    /\ IdleExceptSession
    /\ SessionIdle

\* `async with manager:` is entered: __aenter__ (mod.py:76-85)
Aenter ==
    /\ ~in_context
    /\ opened < MaxEnters
    /\ opened' = opened + 1
    /\ session' = opened + 1
    /\ in_context' = TRUE
    /\ UNCHANGED <<closed, net_requests, session_calls>>
    /\ UNCHANGED exceptSession

\* the block is left, normally or by an exception: __aexit__ (mod.py:87-91)
Aexit ==
    /\ in_context
    /\ IF session # NoSession
       THEN closed' = closed \cup {session} /\ session' = NoSession
       ELSE UNCHANGED <<closed, session>>
    /\ in_context' = FALSE
    /\ UNCHANGED <<opened, net_requests, session_calls>>
    /\ UNCHANGED exceptSession

\* one call of make_request (mod.py:93-113): the guard, then the GET, which
\* the registry answers or fails
SessionMakeRequest ==
    /\ Len(session_calls) < MaxCalls
    /\ IF session_missing(session)
       THEN /\ session_calls' = Append(session_calls,
                                       SessionCall("make_request", "RuntimeError"))
            /\ UNCHANGED net_requests
       ELSE /\ net_requests' = net_requests + 1
            /\ \E result \in {"returned", "Request failed"} :
                  session_calls' = Append(session_calls,
                                          SessionCall("make_request", result))
    /\ UNCHANGED <<session, in_context, opened, closed>>
    /\ UNCHANGED exceptSession

\* one call of fetch_latest_versions (mod.py:126-166): the guard, then the
\* requests of the configured sources, whose failures it records and keeps
SessionFetchLatestVersions ==
    /\ Len(session_calls) < MaxCalls
    /\ IF session_missing(session)
       THEN /\ session_calls' = Append(session_calls,
                                       SessionCall("fetch_latest_versions", "RuntimeError"))
            /\ UNCHANGED net_requests
       ELSE /\ net_requests' = net_requests + 1
            /\ session_calls' = Append(session_calls,
                                       SessionCall("fetch_latest_versions", "returned"))
    /\ UNCHANGED <<session, in_context, opened, closed>>
    /\ UNCHANGED exceptSession

NextSession == Aenter \/ Aexit \/ SessionMakeRequest \/ SessionFetchLatestVersions

SpecSession == InitSession /\ [][NextSession]_vars

\* ------------------------------------------------------ run_automated_update
\* minecraft_mod_manager.py, app.py and the first revision's run_maintenance
MaintImpls == {"manager", "app", "legacy"}

\* what a component call can report: "ok", "false" (it returned False) or
\* "raise".  ServerController.control (server.py:59-70) and
\* BackupManager.create_backup (backup.py:27-57) catch every Exception; the
\* components of app.py are imported from a module the repository does not
\* hold; MinecraftModManager.py defines neither stop_server nor restart_server
\* (lines 367, 382), so these calls raise AttributeError.
StepOutcomes(i, step) ==
    CASE step = "construct" -> IF i = "manager" THEN {"ok", "raise"} ELSE {"ok"}
      [] step = "warn" -> IF i = "app" THEN {"ok", "raise"} ELSE {"ok"}
      [] step \in {"stop", "start"} ->
            CASE i = "manager" -> {"ok", "false"}
              [] i = "app" -> {"ok", "false", "raise"}
              [] OTHER -> {"raise"}
      [] step = "backup" -> IF i = "manager" THEN {"ok", "false"}
                            ELSE {"ok", "false", "raise"}
      [] OTHER -> {"ok", "raise"}

\* an order that goes from the stop to the update
StepAfter_skips_backup(step) ==
    CASE step = "warn" -> "stop"
      [] step = "stop" -> "update"
      [] step = "backup" -> "update"
      [] OTHER -> "start"

\* the step the function takes after a step that succeeded
\* (minecraft_mod_manager.py:86-102, app.py:49-65, MinecraftModManager.py:361-383)
StepAfter(step) ==
    CASE step = "warn" -> "stop"
      [] step = "stop" -> "backup"
      [] step = "backup" -> "update"
      [] OTHER -> "start"

\* a handler that ends without `raise`
reraises_never(i) == FALSE

\* minecraft_mod_manager.py:117 and app.py:77 end the handler with `raise`;
\* MinecraftModManager.py:390-392 does not
reraises(i) == i # "legacy"

FailureTitle(i) == IF i = "legacy" THEN "Maintenance Failed" ELSE "Update Failed"

Step(step, ok) == [step |-> step, ok |-> ok]

\* the `except Exception` handler of the function
\* (minecraft_mod_manager.py:110-117, app.py:72-77, MinecraftModManager.py:390-392)
MaintFails(ns) ==
    /\ maint_notes' = Notify(ns, FailureTitle(maint_impl), TRUE)
    /\ maint_result' = IF reraises(maint_impl) THEN "raised" ELSE "returned"
    /\ maint_pc' = "end"

InitMaint ==
    /\ IdleExceptMaint
    /\ maint_impl \in MaintImpls
    /\ maint_pc = "begin"
    /\ steps = <<>>
    /\ server_up \in BOOLEAN
    /\ maint_notes = <<>>
    /\ maint_result = "none"
    /\ mods_touched = FALSE
    /\ warning_intervals \in 0 .. MaxWarnings
    /\ warnings_sent = 0

\* the status check, the ModManager object and the first notification
\* (minecraft_mod_manager.py:72-83, app.py:39-46)
MaintBegin ==
    /\ maint_pc = "begin"
    /\ IF maint_impl = "legacy"
       THEN /\ maint_pc' = "warn"
            /\ UNCHANGED <<maint_notes, maint_result>>
       ELSE IF ~server_up
       THEN /\ maint_pc' = "end"
            /\ maint_result' = "returned"
            /\ UNCHANGED maint_notes
       ELSE \E o \in StepOutcomes(maint_impl, "construct") :
              IF o = "ok"
              THEN /\ maint_notes' = Notify(maint_notes, "Update Started", FALSE)
                   /\ maint_pc' = "warn"
                   /\ UNCHANGED maint_result
              ELSE MaintFails(maint_notes)
    /\ UNCHANGED <<maint_impl, steps, server_up, mods_touched, warning_intervals, warnings_sent>>
    /\ UNCHANGED exceptMaint

\* warn_players (minecraft_mod_manager.py:86, app.py:49): one message for each
\* configured interval and a last one, none when no interval is configured
\* (notification.py:75-103); the first revision warns when players are online
\* (MinecraftModManager.py:361-362, 607-625)
MaintWarn ==
    /\ maint_pc = "warn"
    /\ \E players \in BOOLEAN, o \in StepOutcomes(maint_impl, "warn") :
         IF \/ maint_impl = "legacy" /\ ~players
            \/ maint_impl # "legacy" /\ warning_intervals = 0
         THEN /\ maint_pc' = StepAfter("warn")
              /\ UNCHANGED <<steps, maint_notes, maint_result, warnings_sent>>
         ELSE /\ steps' = Append(steps, Step("warn", o = "ok"))
              /\ IF o = "ok"
                 THEN /\ warnings_sent' = warning_intervals + 1
                      /\ maint_pc' = StepAfter("warn")
                      /\ UNCHANGED <<maint_notes, maint_result>>
                 ELSE /\ MaintFails(maint_notes)
                      /\ UNCHANGED warnings_sent
    /\ UNCHANGED <<maint_impl, server_up, mods_touched, warning_intervals>>
    /\ UNCHANGED exceptMaint

\* the stop of the server (minecraft_mod_manager.py:89-90, app.py:52-53); the
\* first revision stops a server that is running (MinecraftModManager.py:365-368)
MaintStop ==
    /\ maint_pc = "stop"
    /\ IF maint_impl = "legacy" /\ ~server_up
       THEN /\ maint_pc' = StepAfter("stop")
            /\ UNCHANGED <<steps, server_up, maint_notes, maint_result>>
       ELSE \E o \in StepOutcomes(maint_impl, "stop") :
              LET ns == IF maint_impl = "legacy"
                        THEN Notify(maint_notes, "Maintenance", FALSE)
                        ELSE maint_notes
              IN /\ steps' = Append(steps, Step("stop", o = "ok"))
                 /\ IF o = "ok"
                    THEN /\ server_up' = FALSE
                         /\ maint_pc' = StepAfter("stop")
                         /\ maint_notes' = ns
                         /\ UNCHANGED maint_result
                    ELSE /\ MaintFails(ns)
                         /\ UNCHANGED server_up
    /\ UNCHANGED <<maint_impl, mods_touched, warning_intervals, warnings_sent>>
    /\ UNCHANGED exceptMaint

\* create_backup (minecraft_mod_manager.py:93-94, app.py:56-57,
\* MinecraftModManager.py:371-372)
MaintBackup ==
    /\ maint_pc = "backup"
    /\ \E o \in StepOutcomes(maint_impl, "backup") :
         /\ steps' = Append(steps, Step("backup", o = "ok"))
         /\ IF o = "ok"
            THEN /\ maint_pc' = StepAfter("backup")
                 /\ UNCHANGED <<maint_notes, maint_result>>
            ELSE MaintFails(maint_notes)
    /\ UNCHANGED <<maint_impl, server_up, mods_touched, warning_intervals, warnings_sent>>
    /\ UNCHANGED exceptMaint

\* update_mods inside the async context (minecraft_mod_manager.py:97-98,
\* app.py:60-61, MinecraftModManager.py:375-378)
MaintUpdate ==
    /\ maint_pc = "update"
    /\ \E o \in StepOutcomes(maint_impl, "update"), touched \in BOOLEAN :
         /\ steps' = Append(steps, Step("update", o = "ok"))
         /\ mods_touched' = touched
         /\ IF o = "ok"
            THEN /\ maint_pc' = StepAfter("update")
                 /\ UNCHANGED <<maint_notes, maint_result>>
            ELSE MaintFails(maint_notes)
    /\ UNCHANGED <<maint_impl, server_up, warning_intervals, warnings_sent>>
    /\ UNCHANGED exceptMaint

\* the start of the server and the last notification
\* (minecraft_mod_manager.py:101-108, app.py:64-70, MinecraftModManager.py:381-388)
MaintStart ==
    /\ maint_pc = "start"
    /\ \E o \in StepOutcomes(maint_impl, "start"), up \in BOOLEAN :
         LET ns == IF maint_impl = "legacy"
                   THEN Notify(maint_notes, "Maintenance", FALSE)
                   ELSE maint_notes
         IN /\ steps' = Append(steps, Step("start", o = "ok"))
            /\ IF o = "ok"
               THEN /\ server_up' = TRUE
                    /\ maint_notes' =
                          Notify(ns, IF maint_impl = "legacy" THEN "Maintenance Complete"
                                     ELSE "Update Complete", FALSE)
                    /\ maint_result' = "returned"
                    /\ maint_pc' = "end"
               ELSE /\ server_up' = IF o = "false" THEN up ELSE server_up
                    /\ MaintFails(ns)
    /\ UNCHANGED <<maint_impl, mods_touched, warning_intervals, warnings_sent>>
    /\ UNCHANGED exceptMaint

NextMaint ==
    \/ MaintBegin
    \/ MaintWarn
    \/ MaintStop
    \/ MaintBackup
    \/ MaintUpdate
    \/ MaintStart

SpecMaint == InitMaint /\ [][NextMaint]_vars

\* ------------------------------------------------------- settings/config.py
\* the entries from_dict reads, by section and key (config.py:133-174)
ConfigKeys ==
    {"paths.server", "paths.mods", "paths.backups", "paths.logs",
     "server.jar", "server.java_flags", "server.stop_command", "server.max_stop_wait",
     "minecraft.version", "minecraft.modloader",
     "mods.chunk_size", "mods.max_retries", "mods.base_delay",
     "mods.sources.modrinth", "mods.sources.curseforge",
     "backup.max_mod_backups", "backup.name_format",
     "notifications.discord_webhook", "notifications.warning_template",
     "notifications.warning_intervals"}

\* the fields of the dataclass (config.py:21-51)
ConfigFields ==
    {"server_path", "mods_path", "backups_path", "logs_path",
     "server_jar", "java_flags", "stop_command", "max_stop_wait",
     "minecraft_version", "modloader",
     "chunk_size", "max_retries", "base_delay", "modrinth_mods", "curseforge_mods",
     "max_backups", "backup_name_format",
     "discord_webhook", "warning_template", "warning_intervals"}

\* a from_dict that reads the backup limit under the field's own name
KeyOf_field_name(f) ==
    CASE f = "server_path" -> "paths.server"
      [] f = "mods_path" -> "paths.mods"
      [] f = "backups_path" -> "paths.backups"
      [] f = "logs_path" -> "paths.logs"
      [] f = "server_jar" -> "server.jar"
      [] f = "java_flags" -> "server.java_flags"
      [] f = "stop_command" -> "server.stop_command"
      [] f = "max_stop_wait" -> "server.max_stop_wait"
      [] f = "minecraft_version" -> "minecraft.version"
      [] f = "modloader" -> "minecraft.modloader"
      [] f = "chunk_size" -> "mods.chunk_size"
      [] f = "max_retries" -> "mods.max_retries"
      [] f = "base_delay" -> "mods.base_delay"
      [] f = "modrinth_mods" -> "mods.sources.modrinth"
      [] f = "curseforge_mods" -> "mods.sources.curseforge"
      [] f = "max_backups" -> "backup.max_backups"
      [] f = "backup_name_format" -> "backup.name_format"
      [] f = "discord_webhook" -> "notifications.discord_webhook"
      [] f = "warning_template" -> "notifications.warning_template"
      [] OTHER -> "notifications.warning_intervals"

\* the entry each field is read from (config.py:141-175)
KeyOf(f) ==
    CASE f = "server_path" -> "paths.server"
      [] f = "mods_path" -> "paths.mods"
      [] f = "backups_path" -> "paths.backups"
      [] f = "logs_path" -> "paths.logs"
      [] f = "server_jar" -> "server.jar"
      [] f = "java_flags" -> "server.java_flags"
      [] f = "stop_command" -> "server.stop_command"
      [] f = "max_stop_wait" -> "server.max_stop_wait"
      [] f = "minecraft_version" -> "minecraft.version"
      [] f = "modloader" -> "minecraft.modloader"
      [] f = "chunk_size" -> "mods.chunk_size"
      [] f = "max_retries" -> "mods.max_retries"
      [] f = "base_delay" -> "mods.base_delay"
      [] f = "modrinth_mods" -> "mods.sources.modrinth"
      [] f = "curseforge_mods" -> "mods.sources.curseforge"
      [] f = "max_backups" -> "backup.max_mod_backups"
      [] f = "backup_name_format" -> "backup.name_format"
      [] f = "discord_webhook" -> "notifications.discord_webhook"
      [] f = "warning_template" -> "notifications.warning_template"
      [] OTHER -> "notifications.warning_intervals"

\* the default each field takes when its entry is missing (config.py:143-174)
DefaultOf(f) ==
    CASE f = "server_path" -> "/path/to/minecraft/server"
      [] f = "mods_path" -> "/path/to/minecraft/server/mods"
      [] f = "backups_path" -> "/path/to/minecraft/backups"
      [] f = "logs_path" -> "/path/to/minecraft/logs/mod-manager.log"
      [] f = "server_jar" -> "server.jar"
      [] f = "java_flags" -> <<"-Xms4G", "-Xmx4G">>
      [] f = "stop_command" -> "stop"
      [] f = "max_stop_wait" -> 300
      [] f = "minecraft_version" -> "1.20.1"
      [] f = "modloader" -> "fabric"
      [] f = "chunk_size" -> 5
      [] f = "max_retries" -> 3
      [] f = "base_delay" -> 2
      [] f = "modrinth_mods" -> <<>>
      [] f = "curseforge_mods" -> <<>>
      [] f = "max_backups" -> 3
      [] f = "backup_name_format" -> "%Y%m%d_%H%M%S"
      [] f = "discord_webhook" -> ""
      [] f = "warning_template" -> "Server will restart in {minutes} minutes for updates"
      [] OTHER -> <<15, 10, 5, 1>>

\* section.get(key, default) on the nested dictionary
DictGet(d, k, default) == IF k \in DOMAIN d THEN d[k] ELSE default

\* Config.from_dict (config.py:129-175)
from_dict(d) == [f \in ConfigFields |-> DictGet(d, KeyOf(f), DefaultOf(f))]

\* ' '.join(flags)
RECURSIVE JoinSpaces(_)
JoinSpaces(flags) ==
    IF flags = <<>> THEN ""
    ELSE IF Len(flags) = 1 THEN flags[1]
    ELSE flags[1] \o " " \o JoinSpaces(Tail(flags))

\* the start_command property (config.py:62-65)
start_command(cfg) ==
    "java " \o JoinSpaces(cfg["java_flags"]) \o " -jar " \o cfg["server_jar"] \o " nogui"

\* the legacy accessors: what cfg.<section>.<name> returns (config.py:67-127)
LegacyAccess(cfg, a) ==
    CASE a = "paths.server" -> cfg["server_path"]
      [] a = "paths.mods" -> cfg["mods_path"]
      [] a = "paths.backups" -> cfg["backups_path"]
      [] a = "paths.logs" -> cfg["logs_path"]
      [] a = "server.jar" -> cfg["server_jar"]
      [] a = "server.java_flags" -> cfg["java_flags"]
      [] a = "server.stop_command" -> cfg["stop_command"]
      [] a = "server.max_stop_wait" -> cfg["max_stop_wait"]
      [] a = "server.start_command" -> start_command(cfg)
      [] a = "minecraft.version" -> cfg["minecraft_version"]
      [] a = "minecraft.modloader" -> cfg["modloader"]
      [] a = "mods.chunk_size" -> cfg["chunk_size"]
      [] a = "mods.max_retries" -> cfg["max_retries"]
      [] a = "mods.base_delay" -> cfg["base_delay"]
      [] a = "mods.sources.modrinth" -> cfg["modrinth_mods"]
      [] a = "mods.sources.curseforge" -> cfg["curseforge_mods"]
      [] a = "backup.max_mod_backups" -> cfg["max_backups"]
      [] a = "backup.name_format" -> cfg["backup_name_format"]
      [] a = "notifications.discord_webhook" -> cfg["discord_webhook"]
      [] a = "notifications.warning_template" -> cfg["warning_template"]
      [] OTHER -> cfg["warning_intervals"]

\* the value variant v of an input dictionary holds under key k
Supplied(k, v) ==
    CASE k = "server.java_flags" ->
            IF v = 1 THEN <<"-Xmx2G">> ELSE [i \in 1 .. v |-> "-XX:flag"]
      [] k = "server.jar" -> IF v = 1 THEN "server.jar" ELSE "paper.jar"
      [] k \in {"mods.sources.modrinth", "mods.sources.curseforge"} ->
            [i \in 1 .. (v - 1) |-> k \o "/mod"]
      [] k = "notifications.warning_intervals" -> [i \in 1 .. v |-> 10 * i]
      [] k = "server.max_stop_wait" -> 60 * v
      [] k = "mods.chunk_size" -> 10 + v
      [] k = "mods.max_retries" -> 20 + v
      [] k = "mods.base_delay" -> 30 + v
      [] k = "backup.max_mod_backups" -> v - 1
      [] OTHER -> IF v = 1 THEN k \o "#a" ELSE k \o "#b"

\* the input dictionaries: all entries but a few, or only a few entries
InputKeySets ==
    {S \in SUBSET ConfigKeys :
        \/ Cardinality(ConfigKeys \ S) <= MaxMissing
        \/ Cardinality(S) <= MaxMissing}

InitConfig ==
    /\ IdleExceptConfig
    /\ \E S \in InputKeySets, v \in 1 .. MaxVariants :
          data = [k \in S |-> Supplied(k, v)]
    /\ config = NoConfig
    /\ config_pc = "input"

FromDict ==
    /\ config_pc = "input"
    /\ config' = from_dict(data)
    /\ config_pc' = "built"
    /\ UNCHANGED data
    /\ UNCHANGED exceptConfig

NextConfig == FromDict

SpecConfig == InitConfig /\ [][NextConfig]_vars

\* ----------------------------------------------------- controllers/server.py
\* server.py:44-49  verify_status: a process is tracked and has not exited
verify_status_never(p, al) == FALSE

verify_status(p, al) == p # 0 /\ p \in al

\* server.py:55  the actions control accepts; "status" stands for any other
ControlActions == {"start", "stop", "restart"}

ControlInputs == ControlActions \cup {"status"}

InitServer ==
    /\ ServerIdle
    /\ IdleExceptServer

\* server.py:124-142  _stop_server: terminate, wait (kill and wait when the
\* 30 seconds pass), forget the process
stop_server(p, al) ==
    IF ~verify_status(p, al) THEN [process |-> p, alive |-> al]
    ELSE [process |-> 0, alive |-> al \ {p}]

\* control returns: server.py:57, 66 and 70
ControlReturns(call, result, changed) ==
    /\ control_log' = Append(control_log,
                             [action |-> call.action,
                              running |-> call.running,
                              spawned |-> call.spawned,
                              changed |-> changed,
                              result |-> result,
                              after |-> verify_status(process', alive')])
    /\ server_pc' = "idle"
    /\ server_call' = NoCall
    /\ waited' = 0

\* ServerController.control(action), up to its return or to the Popen of
\* _start_server (server.py:51-70, 101-117)
Control(action) ==
    /\ server_pc = "idle"
    /\ Len(control_log) < MaxControls
    /\ LET running == verify_status(process, alive)
           call == [action |-> action, running |-> running, spawned |-> 0]
           s == IF action \in {"stop", "restart"}
                THEN stop_server(process, alive)
                ELSE [process |-> process, alive |-> alive]
           changed == s.process # process \/ s.alive # alive
       IN IF action \notin ControlActions
          THEN /\ UNCHANGED <<process, alive, spawned>>
               /\ ControlReturns(call, FALSE, FALSE)
          ELSE IF action = "stop" \/ verify_status(s.process, s.alive)
          THEN /\ process' = s.process
               /\ alive' = s.alive
               /\ UNCHANGED spawned
               /\ ControlReturns(call, TRUE, changed)
          ELSE \/ \* subprocess.Popen raised: the handler of control
                  /\ process' = s.process
                  /\ alive' = s.alive
                  /\ UNCHANGED spawned
                  /\ ControlReturns(call, FALSE, changed)
               \/ /\ spawned < MaxSpawns
                  /\ spawned' = spawned + 1
                  /\ process' = spawned + 1
                  /\ alive' = s.alive \cup {spawned + 1}
                  /\ server_pc' = "waiting"
                  /\ server_call' = [call EXCEPT !.spawned = 1]
                  /\ waited' = 0
                  /\ UNCHANGED control_log
    /\ UNCHANGED exceptServer

\* _wait_for_startup got a line from readline (server.py:153, 161-168); the
\* 300 seconds are over once more than MaxWaitLines other lines were read
LineRead(line) ==
    IF line = "Done"
    THEN ControlReturns(server_call, TRUE, TRUE)
    ELSE IF waited + 1 > MaxWaitLines
    THEN ControlReturns(server_call, FALSE, TRUE)
    ELSE /\ waited' = waited + 1
         /\ server_pc' = "waiting"
         /\ UNCHANGED <<server_call, control_log>>

Lines == {"Done", "other"}

\* one pass of the loop of _wait_for_startup (server.py:152-168)
WaitForStartup ==
    /\ server_pc = "waiting"
    /\ \/ \E line \in Lines :
            /\ UNCHANGED <<process, alive, spawned>>
            /\ LineRead(line)
       \/ \* end of file and the process has exited: RuntimeError
          /\ process \notin alive
          /\ UNCHANGED <<process, alive, spawned>>
          /\ ControlReturns(server_call, FALSE, TRUE)
       \/ \* the process is alive and no line comes: readline does not return
          /\ process \in alive
          /\ server_pc' = "blocked"
          /\ UNCHANGED <<process, alive, spawned, server_call, waited, control_log>>
    /\ UNCHANGED exceptServer

\* the server ends the silence: it prints a line, or it exits and readline
\* returns the end of file
ReadlineReturns ==
    /\ server_pc = "blocked"
    /\ \/ \E line \in Lines :
            /\ UNCHANGED <<process, alive, spawned>>
            /\ LineRead(line)
       \/ /\ alive' = alive \ {process}
          /\ UNCHANGED <<process, spawned>>
          /\ ControlReturns(server_call, FALSE, TRUE)
    /\ UNCHANGED exceptServer

\* a server process exits on its own
ProcessExits ==
    /\ server_pc \in {"idle", "waiting"}
    /\ \E p \in alive : alive' = alive \ {p}
    /\ UNCHANGED <<process, spawned, server_pc, server_call, waited, control_log>>
    /\ UNCHANGED exceptServer

NextServer ==
    \/ \E action \in ControlInputs : Control(action)
    \/ WaitForStartup
    \/ ReadlineReturns
    \/ ProcessExits

SpecServer == InitServer /\ [][NextServer]_vars

\* the interpreter goes on with the loop whenever readline has returned
SpecServerLive == InitServer /\ [][NextServer]_vars /\ WF_vars(WaitForStartup)

\* ------------------------------------------- _fetch_mod_info on any answer
SeqsUpTo(S, n) == UNION {[1..k -> S] : k \in 0..n}

ReleasePool == {RelA, RelAJ, RelBJ, RelOld, RelForge, RelNoFiles}

GameVersions == {"1.20.1", "1.19.2"}

Modloaders == {"fabric", "Fabric", "Forge"}

InitResolve ==
    /\ PipelineIdle
    /\ RequestIdle
    /\ FetchIdle
    /\ HistoryIdle
    /\ NotifyIdle
    /\ LateIdle
    /\ versions_data \in SeqsUpTo(ReleasePool, MaxReleases)
    /\ minecraft_version \in GameVersions
    /\ minecraft_modloader \in Modloaders
    /\ resolved = NoInfo
    /\ resolve_failed = <<>>
    /\ resolve_pc = "fetched"

\* _fetch_mod_info of source s1 from the filter on (mod.py:205-234)
ResolveMod ==
    /\ resolve_pc = "fetched"
    /\ LET r == fetch_mod_info(versions_data, Title("s1"), minecraft_version,
                               minecraft_modloader)
       IN CASE r.kind = "ok" ->
                 /\ resolved' = [x \in (DOMAIN resolved) \cup {"s1"} |->
                                   IF x = "s1" THEN r.info ELSE resolved[x]]
                 /\ resolve_pc' = "done"
                 /\ UNCHANGED resolve_failed
            [] r.kind = "none" ->
                 /\ resolve_failed' =
                        Append(resolve_failed, <<Title("s1"), "no compatible version">>)
                 /\ resolve_pc' = "done"
                 /\ UNCHANGED resolved
            [] OTHER ->
                 /\ IF fetch_catches("IndexError")
                    THEN /\ resolve_failed' = Append(resolve_failed, <<"s1", "list index out of range">>)
                         /\ resolve_pc' = "done"
                    ELSE /\ resolve_pc' = "raised"
                         /\ UNCHANGED resolve_failed
                 /\ UNCHANGED resolved
    /\ UNCHANGED <<versions_data, minecraft_version, minecraft_modloader>>
    /\ UNCHANGED <<pipeVars, requestVars, fetchVars, historyVars, notifyVars, lateVars>>

NextResolve == ResolveMod

SpecResolve == InitResolve /\ [][NextResolve]_vars

\* ------------------------------------------------ one registry request
RECURSIVE Pow2(_)
Pow2(k) == IF k = 0 THEN 1 ELSE 2 * Pow2(k - 1)

\* a constant wait
flat_delay(base, count) == base

\* mod.py:103  base_delay * (2 ** retry_count)
retry_delay(base, count) == base * Pow2(count)

\* services.py:121  initial_delay * (2 ** attempt)
wait_time(initial_delay, att) == initial_delay * Pow2(att)

\* the sleep ahead of every GET
RateLimitDelay(i) == IF i = "legacy" THEN 2 ELSE 1

Sleep(sl, kind, secs) == Append(sl, [kind |-> kind, secs |-> secs])

\* what a GET can come back with: a status, and for a 200 whether its body
\* parses as JSON; status 0 stands for a connection that failed
ApiStatuses == {200, RATE_LIMIT_STATUS, 400, 404, 500}

ApiAnswers ==
    {[status |-> 0, json |-> FALSE]}
    \cup {[status |-> st, json |-> FALSE] : st \in ApiStatuses}
    \cup {[status |-> 200, json |-> TRUE]}

InitRequest ==
    /\ PipelineIdle
    /\ ResolveIdle
    /\ FetchIdle
    /\ HistoryIdle
    /\ NotifyIdle
    /\ LateIdle
    /\ req_impl \in Impls
    /\ max_retries \in 0..MaxRetriesCfg
    /\ base_delay \in 1..MaxBaseDelay
    /\ retry_count = 0
    /\ attempt = 0
    /\ answers = <<>>
    /\ sleeps = <<>>
    /\ req_trace = <<>>
    /\ req_exc = NoExc
    /\ req_pc = "call"

\* the rate-limiting sleep ahead of the first attempt only
AttemptTrace_first_only(count) == IF count = 0 THEN <<"rate", "get">> ELSE <<"get">>

\* one attempt: the rate-limiting sleep, then the GET
AttemptTrace(count) == <<"rate", "get">>

\* mod.py:106-115: what make_request raises for an answer it does not retry;
\* the handler wraps every exception in a RuntimeError("Request failed: ...")
make_request_error(a) ==
    CASE a.status = 0 -> [class |-> "RuntimeError", msg |-> "connection"]
      [] a.status = RATE_LIMIT_STATUS -> [class |-> "RuntimeError", msg |-> "rate_limit"]
      [] a.status # 200 -> [class |-> "RuntimeError", msg |-> "status"]
      [] ~a.json -> [class |-> "RuntimeError", msg |-> "json"]
      [] OTHER -> NoExc

\* ModManager.make_request (and the make_request of MinecraftModManager.py):
\* one call, up to its return, its raise or its recursive call
MakeRequest ==
    /\ req_impl \in {"managers", "legacy"}
    /\ req_pc = "call"
    /\ \E a \in ApiAnswers :
         /\ answers' = Append(answers, a)
         /\ LET sl == Sleep(sleeps, "rate", RateLimitDelay(req_impl))
                tr == req_trace \o AttemptTrace(retry_count)
            IN IF a.status = RATE_LIMIT_STATUS /\ retry_count < max_retries
               THEN /\ sleeps' = Sleep(sl, "backoff", retry_delay(base_delay, retry_count))
                    /\ req_trace' = Append(tr, "backoff")
                    /\ retry_count' = retry_count + 1
                    /\ UNCHANGED <<req_pc, req_exc>>
               ELSE /\ sleeps' = sl
                    /\ req_trace' = tr
                    /\ req_pc' = IF a.status = 200 /\ a.json THEN "returned" ELSE "raised"
                    /\ req_exc' = make_request_error(a)
                    /\ UNCHANGED retry_count
    /\ UNCHANGED <<req_impl, max_retries, base_delay, attempt>>
    /\ UNCHANGED <<pipeVars, resolveVars, fetchVars, historyVars, notifyVars, lateVars>>

\* services.py: the exception _execute_single_request raises for an answer
RequestError(a) ==
    CASE a.status = 0 -> "ClientError"
      [] a.status = RATE_LIMIT_STATUS -> "RateLimitError"
      [] a.status = 404 -> "ModUpdateError"
      [] a.status >= 500 -> "NetworkError"
      [] a.status # 200 -> "ModUpdateError"
      [] ~a.json -> "ModUpdateError"
      [] OTHER -> "none"

\* what the message of the exception is about
ErrorAbout(a) ==
    CASE a.status = 0 -> "connection"
      [] a.status = RATE_LIMIT_STATUS -> "rate_limit"
      [] a.status # 200 -> "status"
      [] OTHER -> "json"

\* every exception of the request is retried
Retried_any(exc) == exc # "none"

\* services.py:193  exception_types=(RateLimitError, NetworkError)
Retried(exc) == exc \in {"RateLimitError", "NetworkError"}

\* retry_with_backoff around _execute_single_request: one pass of its loop
RetryWithBackoff ==
    /\ req_impl = "services"
    /\ req_pc = "call"
    /\ IF attempt >= max_retries
       THEN \* range(max_attempts) is empty
            /\ req_pc' = "raised"
            /\ req_exc' = [class |-> "MinecraftModManagerError", msg |-> "no_attempt"]
            /\ UNCHANGED <<answers, sleeps, req_trace, attempt>>
       ELSE \E a \in ApiAnswers :
              /\ answers' = Append(answers, a)
              /\ LET sl == Sleep(sleeps, "rate", RateLimitDelay(req_impl))
                     tr == req_trace \o AttemptTrace(attempt)
                     exc == RequestError(a)
                 IN IF Retried(exc) /\ attempt # max_retries - 1
                    THEN /\ sleeps' = Sleep(sl, "backoff", wait_time(base_delay, attempt))
                         /\ req_trace' = Append(tr, "backoff")
                         /\ attempt' = attempt + 1
                         /\ UNCHANGED <<req_pc, req_exc>>
                    ELSE /\ sleeps' = sl
                         /\ req_trace' = tr
                         /\ req_pc' = IF exc = "none" THEN "returned" ELSE "raised"
                         /\ req_exc' = IF exc = "none" THEN NoExc
                                        ELSE [class |-> exc, msg |-> ErrorAbout(a)]
                         /\ UNCHANGED attempt
    /\ UNCHANGED <<req_impl, max_retries, base_delay, retry_count>>
    /\ UNCHANGED <<pipeVars, resolveVars, fetchVars, historyVars, notifyVars, lateVars>>

NextRequest == MakeRequest \/ RetryWithBackoff

SpecRequest == InitRequest /\ [][NextRequest]_vars

\* ================================================ fetch_latest_versions
\* One call of fetch_latest_versions (retrieve_latest_versions in
\* services.py, fetch_latest_mod_versions in MinecraftModManager.py).  The
\* function awaits the gather of one chunk of tasks at a time; the tasks of
\* a chunk finish in any order, and each task touches the shared mapping and
\* failure list only in its last synchronous stretch.

SourceTypes == {"modrinth", "curseforge"}

\* project slugs, standing for the URLs that name them
Slugs == {"x", "y"}

ModSource(t, u) == [type |-> t, url |-> u]

\* the modrinth URLs of the configuration, then the curseforge URLs
get_mod_sources(modrinth, curseforge) ==
    [i \in 1..Len(modrinth) |-> ModSource("modrinth", modrinth[i])]
        \o [i \in 1..Len(curseforge) |-> ModSource("curseforge", curseforge[i])]

\* what a registry answers about a project: a compatible release ("ok"),
\* releases but none compatible ("none"), an empty search result
\* ("notfound", CurseForge only), or a failing request ("raise")
AnswerKinds == {"ok", "none", "notfound", "raise"}

\* the registry endpoint a task queries: the managers and the legacy
\* revision query the Modrinth API for every source, services.py queries
\* the API of the source's platform
Endpoint(i, src) ==
    IF i = "services" THEN <<src.type, src.url>> ELSE <<"modrinth", src.url>>

Endpoints == SourceTypes \X Slugs

\* the key under which a task stores its entry: the project id parsed from
\* the URL (the URL itself in the legacy revision)
ProjectKey(src) == src.url

\* the entry a task builds from the answers of endpoint e
EntryFrom(e) == [api |-> e[1], project |-> e[2]]

\* mod_info[project_id] = {...}
StoreInfo(info, k, v) == [x \in DOMAIN info \cup {k} |-> IF x = k THEN v ELSE info[x]]

\* the failure entries one task appends, in order
TaskFailures(i, src, kind) ==
    CASE kind = "ok" -> <<>>
      [] kind = "none" /\ i = "services" /\ src.type = "curseforge" ->
            \* the else branch appends its entry and then formats a log line
            \* from names that are not defined in the function; the
            \* exception reaches the caller's handler, which appends again
            <<<<src.url, "no compatible version">>, <<src.url, "NameError">>>>
      [] kind = "none" -> <<<<src.url, "no compatible version">>>>
      [] kind = "notfound" -> <<<<src.url, "not found">>>>
      [] OTHER -> <<<<src.url, "request failed">>>>

\* sources[i:i + chunk_size], as 1-based positions
Chunk(i, c, n) == {j \in 1..n : i < j /\ j <= i + c}

PacingAfterLast(i, c, n) == i < n

\* if i + chunk_size < len(sources)
MorePending(i, c, n) == i + c < n

UsedEndpoints(i, srcs) == {Endpoint(i, srcs[j]) : j \in DOMAIN srcs}

InitFetch ==
    /\ PipelineIdle
    /\ ResolveIdle
    /\ RequestIdle
    /\ HistoryIdle
    /\ NotifyIdle
    /\ LateIdle
    /\ fetch_impl \in Impls
    /\ \E m \in SeqsUpTo(Slugs, MaxSources), c \in SeqsUpTo(Slugs, MaxSources) :
          /\ Len(m) + Len(c) <= MaxSources
          /\ fetch_impl = "legacy" => c = <<>>
          /\ mod_sources = get_mod_sources(m, c)
    /\ chunk_size \in 1..MaxChunk
    /\ responses \in [Endpoints -> AnswerKinds]
    /\ \A e \in Endpoints :
          /\ e \notin UsedEndpoints(fetch_impl, mod_sources) => responses[e] = "ok"
          /\ e[1] = "modrinth" => responses[e] # "notfound"
    /\ chunk_start = 0
    /\ task = [j \in DOMAIN mod_sources |-> "pending"]
    /\ dispatched = [j \in DOMAIN mod_sources |-> 0]
    /\ version_info = NoInfo
    /\ processing_failures = <<>>
    /\ pacing_delays = 0
    /\ fetch_pc = "loop"

\* the loop body up to the gather: one task per source of the chunk
DispatchChunk ==
    /\ fetch_pc = "loop"
    /\ chunk_start < Len(mod_sources)
    /\ LET ch == Chunk(chunk_start, chunk_size, Len(mod_sources))
       IN  /\ task' = [j \in DOMAIN task |-> IF j \in ch THEN "running" ELSE task[j]]
           /\ dispatched' = [j \in DOMAIN dispatched |->
                                IF j \in ch THEN dispatched[j] + 1 ELSE dispatched[j]]
    /\ fetch_pc' = "gather"
    /\ UNCHANGED <<fetch_impl, mod_sources, chunk_size, responses, chunk_start,
                   version_info, processing_failures, pacing_delays>>
    /\ UNCHANGED <<pipeVars, resolveVars, requestVars, historyVars, notifyVars, lateVars>>

\* one task of the gathered chunk runs to its end
FinishTask ==
    /\ fetch_pc = "gather"
    /\ \E j \in DOMAIN task :
          /\ task[j] = "running"
          /\ LET src == mod_sources[j]
                 e == Endpoint(fetch_impl, src)
                 kind == responses[e]
             IN  /\ version_info' = IF kind = "ok"
                                      THEN StoreInfo(version_info, ProjectKey(src), EntryFrom(e))
                                      ELSE version_info
                 /\ processing_failures' =
                        processing_failures \o TaskFailures(fetch_impl, src, kind)
          /\ task' = [task EXCEPT ![j] = "done"]
    /\ UNCHANGED <<fetch_impl, mod_sources, chunk_size, responses, chunk_start,
                   dispatched, pacing_delays, fetch_pc>>
    /\ UNCHANGED <<pipeVars, resolveVars, requestVars, historyVars, notifyVars, lateVars>>

\* the gather returns: the pacing sleep when more sources are left, then the
\* next value of the loop variable
EndChunk ==
    /\ fetch_pc = "gather"
    /\ \A j \in Chunk(chunk_start, chunk_size, Len(mod_sources)) : task[j] = "done"
    /\ pacing_delays' = IF MorePending(chunk_start, chunk_size, Len(mod_sources))
                           THEN pacing_delays + 1
                           ELSE pacing_delays
    /\ chunk_start' = chunk_start + chunk_size
    /\ fetch_pc' = "loop"
    /\ UNCHANGED <<fetch_impl, mod_sources, chunk_size, responses, task, dispatched,
                   version_info, processing_failures>>
    /\ UNCHANGED <<pipeVars, resolveVars, requestVars, historyVars, notifyVars, lateVars>>

\* the range is used up: return mod_info
ReturnInfo ==
    /\ fetch_pc = "loop"
    /\ chunk_start >= Len(mod_sources)
    /\ fetch_pc' = "returned"
    /\ UNCHANGED <<fetch_impl, mod_sources, chunk_size, responses, chunk_start, task,
                   dispatched, version_info, processing_failures, pacing_delays>>
    /\ UNCHANGED <<pipeVars, resolveVars, requestVars, historyVars, notifyVars, lateVars>>

NextFetch == DispatchChunk \/ FinishTask \/ EndChunk \/ ReturnInfo

SpecFetch == InitFetch /\ [][NextFetch]_vars

\* ==================================================================== claims
Last(q) == q[Len(q)]

Has(s, e) == e \in Range(events[s])

\* the events the step adds to the task of s
NewEvents(s) == SubSeq(events'[s], Len(events[s]) + 1, Len(events'[s]))

Name(s) == mod_info[s].project_name

File(s) == mod_info[s].filename

Resolved(s) == s \in DOMAIN mod_info /\ phase \in {"executing", "returned", "raised"}

\* failed_mods holds an entry of the mod with a reason
FailedFor(pn) == \E i \in DOMAIN failed_mods : failed_mods[i] \in {<<pn, r>> : r \in
    {"error", "update failed, rolled back", "update and rollback failed",
     "incompatible - rolled back", "incompatible - rollback failed"}}

\* C1: in ModManager._update_single_mod, when the file existed (a Replace) and
\* the startup verification failed, the file at mods_dir/filename has, once
\* _rollback_mod has run, the content it had before the update began.
\* (Stated for the runs in which _rollback_mod returned True.)
C1_RollbackRestores ==
    [][\A s \in Sources :
         (/\ impl = "managers"
          /\ pc[s] = "probe"
          /\ pc'[s] = "done"
          /\ Last(events'[s]) \in {"exited", "wait_expired"}
          /\ Exists(snap[s], File(s))
          /\ failed_mods' = Append(failed_mods, <<Name(s), "incompatible - rolled back">>))
         => /\ Exists(mods', File(s))
            /\ mods'[File(s)].content = snap[s][File(s)].content]_vars

\* C3: a startup probe that times out (the process neither exits nor prints
\* "Done" within the wait) makes the mod Failed, never Updated.
C3_TimeoutFails ==
    \A s \in Sources :
        (impl = "managers" /\ Resolved(s) /\ pc[s] = "done" /\ Has(s, "timeout"))
        => FailedFor(Name(s)) /\ Name(s) \notin Range(updated_mods)

\* a failure event of the task of s: an exception was raised in a step of the
\* update, or the verification reported failure
FailureEvents ==
    {"backup_failed", "get_error", "write_failed", "probe_raised", "head_error",
     "rm_failed", "exited", "wait_expired"}

Failed(s) ==
    \/ Range(events[s]) \cap FailureEvents # {}
    \/ impl # "legacy" /\ Has(s, "get_non2xx")

HasOutcome(s) ==
    \/ FailedFor(Name(s))
    \/ Name(s) \in Range(updated_mods) \cup Range(skipped_mods) \cup Range(newly_added_mods)

\* C4: no exception leaves the per-mod update function (of any of the three
\* revisions): a task whose backup, download, write, verification or rollback
\* failed has returned, and failed_mods holds an entry of its mod with a reason.
C4_NeverRaises ==
    \A s \in Sources :
        Resolved(s) =>
            /\ pc[s] # "raised"
            /\ Failed(s) => pc[s] = "done" /\ FailedFor(Name(s))

\* a rollback raised inside the handler of a failed verification, and the
\* task still returned with an entry
C4_Witness ==
    \E s \in Sources :
        /\ impl = "managers"
        /\ Resolved(s)
        /\ Has(s, "exited")
        /\ pc[s] = "done"
        /\ <<Name(s), "error">> \in Range(failed_mods)

\* C5: a mod that fails, in resolution or in execution, does not abort the
\* batch: update_mods does not raise, and when it has returned every source
\* was resolved or has its resolution failure recorded, and every resolved
\* mod's task has ended with an outcome.
C5_BatchSurvives ==
    /\ phase # "raised"
    /\ phase = "returned" =>
         \A s \in Sources :
            IF s \in DOMAIN mod_info
            THEN pc[s] = "done" /\ HasOutcome(s)
            ELSE \E i \in DOMAIN res_failed : res_failed[i][1] \in {s, Title(s)}

\* one mod failed in resolution or in execution, the other was updated
C5_Witness ==
    /\ phase = "returned"
    /\ \E s, t \in Sources :
          /\ s # t
          /\ \/ <<Title(s), "no compatible version">> \in Range(res_failed)
             \/ s \in DOMAIN mod_info /\ Has(s, "get_error") /\ FailedFor(Name(s))
          /\ t \in DOMAIN mod_info
          /\ Has(t, "write")
          /\ Name(t) \in Range(updated_mods)

\* C6: when the execute stage has completed, the updated, skipped and failed
\* lists hold exactly one entry per resolved mod.
C6_OneOutcome ==
    phase = "returned" =>
        Len(updated_mods) + Len(skipped_mods) + Len(failed_mods)
            = Cardinality(DOMAIN mod_info)

\* C7: in ModManager._update_single_mod, when the target path is occupied the
\* copy-aside is made in the step that issues the download GET, ahead of it;
\* when the copy-aside fails no GET is issued, the mods directory and the
\* backups are as they were, and the mod is Failed and not Updated.
C7_BackupBeforeGet ==
    [][\A s \in Sources :
         (impl = "managers" /\ pc[s] = "planned" /\ pc'[s] # "planned"
          /\ Exists(mods, File(s)))
         => \/ /\ NewEvents(s) = <<"backup", "get">>
               /\ mods' = mods
               /\ (max_mod_backups > 0 /\ bdirs[Name(s)] = EmptyDir)
                    => /\ Exists(bdirs'[Name(s)], BackupPath(File(s), clock))
                       /\ bdirs'[Name(s)][BackupPath(File(s), clock)].content
                            = mods[File(s)].content
            \/ /\ NewEvents(s) = <<"backup_failed">>
               /\ mods' = mods
               /\ bdirs' = bdirs
               /\ pc'[s] = "done"
               /\ failed_mods' = Append(failed_mods, <<Name(s), "error">>)
               /\ updated_mods' = updated_mods]_vars

\* a task whose copy-aside failed has ended
C7_Witness ==
    \E s \in Sources :
        /\ impl = "managers"
        /\ Resolved(s)
        /\ events[s] = <<"backup_failed">>
        /\ pc[s] = "done"
        /\ Exists(mods, File(s))

Contents(dir) == [x \in DOMAIN dir |-> dir[x].content]

\* C8: a download GET that fails (connection error or non-200 status) leaves
\* the mods directory as it was when the mod's task started.  (Stated for the
\* tasks that ran with no other task started, in mod.py, where _rollback_mod
\* returned True, and in MinecraftModManager.py.)
C8_DownloadFailureFrame ==
    [][\A s \in Sources :
         (/\ impl \in {"managers", "legacy"}
          /\ pc[s] = "get"
          /\ Range(NewEvents(s)) \cap {"get_error", "get_non2xx"} # {}
          /\ Range(NewEvents(s)) \cap {"write", "write_failed"} = {}
          /\ impl = "managers"
               => <<Name(s), "update failed, rolled back">> \in Range(failed_mods')
          /\ \A t \in Sources \ {s} : pc[t] \in {"none", "planned"})
         => Contents(mods') = Contents(snap[s])]_vars

\* C9: the body of a download GET answered with a non-2xx status is never
\* written, and the mod is Failed and not Updated.
C9_Non2xxFails ==
    \A s \in Sources :
        (Resolved(s) /\ Has(s, "get_non2xx"))
        => /\ ~Has(s, "write")
           /\ pc[s] = "done" => FailedFor(Name(s)) /\ Name(s) \notin Range(updated_mods)

\* two loader names that differ in case only
CaseClasses == {{"fabric", "Fabric", "FABRIC"}, {"forge", "Forge", "FORGE"}}

SameIgnoringCase(a, b) == \E c \in CaseClasses : a \in c /\ b \in c

Matches(v, version, modloader) ==
    /\ version \in v.game_versions
    /\ \E i \in DOMAIN v.loaders : SameIgnoringCase(v.loaders[i], modloader)

\* C2: for every release list and target, _fetch_mod_info takes the first
\* element, in the registry's order, whose game_versions holds the version and
\* whose loaders hold the loader compared without case; the entry it stores is
\* that element's (an element that lists no file raises inside the handler
\* and stores nothing); when no element matches it stores no entry and
\* records a 'no compatible version' failure.
C2_FirstCompatible ==
    resolve_pc # "fetched" =>
        LET m == {i \in DOMAIN versions_data :
                    Matches(versions_data[i], minecraft_version, minecraft_modloader)}
        IN IF m = {}
           THEN /\ resolved = NoInfo
                /\ resolve_failed = <<<<Title("s1"), "no compatible version">>>>
           ELSE LET k == CHOOSE i \in m : \A j \in m : i <= j
                IN IF versions_data[k].files = <<>>
                   THEN resolved = NoInfo /\ resolve_failed = <<<<"s1", "list index out of range">>>>
                   ELSE /\ DOMAIN resolved = {"s1"}
                        /\ resolved["s1"].version_id = versions_data[k].id
                        /\ resolved["s1"].filename = versions_data[k].files[1].filename
                        /\ resolve_failed = <<>>

\* the second of three releases is taken: the first is for another game
\* version, the second matches the loader in another case, the third matches too
C2_Witness ==
    /\ resolve_pc = "done"
    /\ versions_data = <<RelOld, RelAJ, RelA>>
    /\ minecraft_version = "1.20.1"
    /\ minecraft_modloader = "Fabric"
    /\ DOMAIN resolved = {"s1"}
    /\ resolved["s1"].version_id = "rAJ"

RECURSIVE SumSecs(_)
SumSecs(q) == IF q = <<>> THEN 0 ELSE q[1].secs + SumSecs(Tail(q))

Backoffs == SelectSeq(sleeps, LAMBDA x : x.kind = "backoff")

\* the registry has answered 429 n times and then a 200 with a JSON body
RateLimitedThenOk(n) ==
    /\ Len(answers) = n + 1
    /\ \A i \in 1..n : answers[i].status = RATE_LIMIT_STATUS
    /\ answers[n + 1] = [status |-> 200, json |-> TRUE]

\* C10: when the registry answers N times 429 and then 200, with
\* N < max_retries, the request has returned on that answer, the (N+1)-th GET;
\* the k-th backoff wait (k = 0..N-1) was base_delay * 2^k, and the waits add
\* up to base_delay * (2^N - 1).
C10_Backoff ==
    \A n \in 0..MaxRetriesCfg :
        (n < max_retries /\ RateLimitedThenOk(n))
        => /\ req_pc = "returned"
           /\ Len(Backoffs) = n
           /\ \A k \in 0..(n - 1) : Backoffs[k + 1].secs = base_delay * Pow2(k)
           /\ SumSecs(Backoffs) = base_delay * (Pow2(n) - 1)

\* 429, 429, 200 with max_retries 3 and base_delay 2: waits of 2 and 4
C10_Witness ==
    /\ req_impl = "managers"
    /\ req_pc = "returned"
    /\ max_retries = 3
    /\ base_delay = 2
    /\ RateLimitedThenOk(2)
    /\ SumSecs(Backoffs) = 6

AllRateLimited == \A i \in DOMAIN answers : answers[i].status = RATE_LIMIT_STATUS

IsRateLimitError(e) == e.class = "RateLimitError" \/ e.msg = "rate_limit"

\* C11: when the registry answers every attempt with 429, the request issues
\* at least one and at most max_retries + 1 GETs (for every max_retries >= 0)
\* and then fails with a rate-limit error.
C11_RateLimitExhausted ==
    AllRateLimited =>
        /\ Len(answers) <= max_retries + 1
        /\ req_pc = "raised" => Len(answers) >= 1 /\ IsRateLimitError(req_exc)

AllTransient ==
    \A i \in DOMAIN answers :
        answers[i].status = RATE_LIMIT_STATUS \/ answers[i].status >= 500

\* C12: a 5xx answer is retried like a 429: after n answers that are all 429
\* or 5xx, with n < max_retries, the request has not failed, and it has made
\* the n backoff waits base_delay * 2^k (k = 0..n-1).
C12_ServerErrorRetried ==
    (AllTransient /\ Len(answers) < max_retries)
    => /\ req_pc = "call"
       /\ Len(Backoffs) = Len(answers)
       /\ \A k \in 0..(Len(answers) - 1) : Backoffs[k + 1].secs = base_delay * Pow2(k)

\* a status that is neither 2xx, nor 429, nor 5xx
IsClientError(st) == st >= 300 /\ st < 500 /\ st # RATE_LIMIT_STATUS

RateSleeps == SelectSeq(sleeps, LAMBDA x : x.kind = "rate")

\* C14: every registry GET, the retries included, comes right after the fixed
\* rate-limiting sleep, whatever the earlier attempts were answered.
C14_DelayBeforeEveryGet ==
    /\ \A i \in DOMAIN req_trace :
          req_trace[i] = "get" => i > 1 /\ req_trace[i - 1] = "rate"
    /\ Len(RateSleeps) = Len(answers)
    /\ \A i \in DOMAIN RateSleeps :
          RateSleeps[i].secs = RateLimitDelay(req_impl) /\ RateSleeps[i].secs > 0

\* three GETs, after nothing, after a 429 and after a 500
C14_Witness ==
    /\ req_impl = "services"
    /\ req_pc = "returned"
    /\ Len(answers) = 3
    /\ answers[1].status = RATE_LIMIT_STATUS
    /\ answers[2].status = 500
    /\ req_trace = <<"rate", "get", "backoff", "rate", "get", "backoff", "rate", "get">>

ChunkOf(j) == (j - 1) \div chunk_size

CeilDiv(a, b) == (a + b - 1) \div b

\* C15: in fetch_latest_versions no task of a later chunk has started while
\* a task of an earlier chunk is unfinished; when chunk k is gathered exactly
\* k pacing delays have been taken (one between consecutive chunks), and at
\* the return, for n >= 1 sources, ceil(n / chunk_size) - 1 in all: none
\* after the last chunk.
C15_ChunksInOrder ==
    fetch_pc # "idle" =>
        /\ \A j \in DOMAIN task : \A k \in DOMAIN task :
              (task[j] # "pending" /\ ChunkOf(k) < ChunkOf(j)) => task[k] = "done"
        /\ fetch_pc = "gather" => pacing_delays = chunk_start \div chunk_size
        /\ (fetch_pc = "returned" /\ Len(mod_sources) >= 1)
              => pacing_delays = CeilDiv(Len(mod_sources), chunk_size) - 1

C15_Witness ==
    /\ fetch_pc = "returned"
    /\ Len(mod_sources) = 3
    /\ chunk_size = 2
    /\ pacing_delays = 1
    /\ \A j \in DOMAIN task : task[j] = "done"

RECURSIVE InListOrder(_)
\* the mapping left when the first k tasks finish in the order of the list
InListOrder(k) ==
    IF k = 0 THEN NoInfo
    ELSE LET src == mod_sources[k]
             e == Endpoint(fetch_impl, src)
         IN  IF responses[e] = "ok"
                THEN StoreInfo(InListOrder(k - 1), ProjectKey(src), EntryFrom(e))
                ELSE InListOrder(k - 1)

\* C16: for fixed registry responses the mapping fetch_latest_versions
\* returns does not depend on the order in which the tasks of a chunk
\* finish: it is the mapping left when they finish in list order.
C16_OrderIndependent ==
    fetch_pc = "returned" => version_info = InListOrder(Len(mod_sources))

\* C17: with chunk_size >= 1 every configured source is dispatched in
\* exactly one chunk of at most chunk_size sources, and when the function
\* returns each source is accounted for exactly once: the entries of the
\* mapping plus the recorded failures are as many as the sources.
C17_EverySourceOnce ==
    /\ fetch_pc = "gather" =>
          Cardinality(Chunk(chunk_start, chunk_size, Len(mod_sources))) <= chunk_size
    /\ fetch_pc = "returned" =>
          /\ \A j \in DOMAIN dispatched : dispatched[j] = 1
          /\ Cardinality(DOMAIN version_info) + Len(processing_failures) = Len(mod_sources)

\* the file at mods_dir/filename when the task of s started
HadLocal(s) == Exists(snap[s], File(s))

LocalSize(s) == SizeOf(snap[s][File(s)].content)

\* the content length the task of s compares with: the one of the download,
\* or 0 when the HEAD response had no content-length header
RemoteLength(s) == IF Has(s, "no_length") THEN 0 ELSE SizeOf(mod_info[s].body)

\* what the task of s went on to do
IsAdd(s) == Head(events[s]) = "get"

IsNoOp(s) == Has(s, "skip") /\ ~Has(s, "get")

IsReplace(s) ==
    Range(events[s]) \cap {"backup", "backup_failed", "rm", "rm_failed"} # {}

PlanDecided(s) == Resolved(s) /\ events[s] # <<>> /\ (IsAdd(s) \/ IsNoOp(s) \/ IsReplace(s))

\* C18: in MinecraftModManager.py and managers/mod.py the task of a resolved
\* mod adds iff no file was at mods_dir/filename, does nothing iff the file
\* was there and its size equals the remote content length, and replaces iff
\* the file was there and the sizes differ.
C18_PlanBySize ==
    \A s \in Sources :
        (impl \in {"managers", "legacy"} /\ PlanDecided(s)) =>
            /\ IsAdd(s) <=> ~HadLocal(s)
            /\ IsNoOp(s) <=> (HadLocal(s) /\ LocalSize(s) = RemoteLength(s))
            /\ IsReplace(s) <=> (HadLocal(s) /\ LocalSize(s) # RemoteLength(s))

ProbeFailed(s) == Has(s, "head_error") \/ Has(s, "no_length")

\* C19: in MinecraftModManager.py, when the remote size cannot be obtained
\* (the HEAD raises, or its response has no content-length header) the task
\* goes on as for a replacement, removing the local file for the download:
\* the mod is neither skipped nor failed by the probe.
C19_ProbeErrorReplaces ==
    \A s \in Sources :
        (impl = "legacy" /\ Resolved(s) /\ ProbeFailed(s)) =>
            /\ ~Has(s, "skip")
            /\ Has(s, "rm") \/ Has(s, "rm_failed")
            /\ Last(events[s]) = "head_error" => ~FailedFor(Name(s))

\* the step in which the task of s settles on leaving an equal-sized file
\* alone or not: the file was there and its size is the remote content length
SettlesOnEqualSize(s) ==
    /\ impl \in {"managers", "legacy"}
    /\ ~PlanDecided(s)
    /\ PlanDecided(s)'
    /\ HadLocal(s)'
    /\ LocalSize(s)' = RemoteLength(s)'

\* C20: when the local file exists and its size equals the remote content
\* length, the mod is reported as skipped, no download GET is issued for it,
\* and the step leaves the mods directory and the backup directories as
\* they were.
C20_NoOpFrame ==
    [][\A s \in Sources :
          SettlesOnEqualSize(s) =>
              /\ NewEvents(s) = <<"skip">>
              /\ skipped_mods' = Append(skipped_mods, Name(s))
              /\ mods' = mods
              /\ bdirs' = bdirs]_vars

\* the earlier run resolved s to the release this run resolved it to, ended
\* with s updated, added or skipped, and left the release's body, whose
\* length the HEAD reports, at mods_dir/filename
SettledBefore(s) ==
    /\ s \in DOMAIN last_run.info
    /\ s \in DOMAIN mod_info
    /\ last_run.info[s] = mod_info[s]
    /\ Name(s) \in Range(last_run.updated) \cup Range(last_run.skipped)
                    \cup Range(last_run.added)
    /\ Exists(last_run.mods, File(s))
    /\ last_run.mods[File(s)].content = mod_info[s].body

\* C21: planning a mod again after a run that added, replaced or skipped it,
\* with the registry and the local files unchanged, leaves it alone: the
\* second run skips it, issues no download and changes no file.
C21_SecondRunNoOp ==
    [][\A s \in Sources :
          (/\ impl \in {"managers", "legacy"}
           /\ SettledBefore(s)
           /\ ~PlanDecided(s)
           /\ PlanDecided(s)'
           /\ ~Has(s, "no_length")')
          => /\ NewEvents(s) = <<"skip">>
             /\ mods' = mods
             /\ bdirs' = bdirs]_vars

\* the step in which the task of s, which found its file in place, made its
\* backup and had its download verified, records the mod as updated
ReplaceSucceeds(s) ==
    /\ impl = "managers"
    /\ s \in DOMAIN mod_info
    /\ pc[s] # "done"
    /\ pc'[s] = "done"
    /\ HadLocal(s)
    /\ Has(s, "backup")
    /\ updated_mods' = Append(updated_mods, Name(s))

\* C22: when a Replace succeeds in managers/mod.py (backup made, download
\* answered 200, startup probe healthy) the mod is recorded as updated,
\* mods_dir/filename holds the downloaded content, and the mod's backup
\* directory holds a copy of the content the file had before the update.
C22_ReplaceKeepsBackup ==
    [][\A s \in Sources :
          ReplaceSucceeds(s) =>
              /\ Exists(mods', File(s))
              /\ mods'[File(s)].content = mod_info[s].body
              /\ \E b \in DOMAIN bdirs'[Name(s)] :
                    bdirs'[Name(s)][b].content = snap[s][File(s)].content]_vars

\* the step in which the task of s ends after _verify_server_startup
\* returned False
VerificationFailed(s) ==
    /\ impl = "managers"
    /\ s \in DOMAIN mod_info
    /\ NewEvents(s) # <<>>
    /\ Last(NewEvents(s)) \in {"exited", "wait_expired"}

RolledBackReasons == {"incompatible - rolled back", "update failed, rolled back"}

RollbackFailedReasons == {"incompatible - rollback failed", "update and rollback failed"}

\* the entries the step adds to failed_mods
NewFailures == SubSeq(failed_mods', Len(failed_mods) + 1, Len(failed_mods'))

\* the files of the mods directory other than the one of s
OtherFiles(dir, s) == [x \in (DOMAIN dir) \ {File(s)} |-> dir[x]]

\* C23: when the verification of a mod failed and the restore from its
\* backup did not succeed (no backup, or the restore copy raised), the mod
\* is recorded as failed with a 'rollback failed' reason, and the files and
\* outcomes of the other mods are as before.
C23_RollbackFailureReported ==
    [][\A s \in Sources :
          (/\ VerificationFailed(s)
           /\ \A r \in RolledBackReasons : <<Name(s), r>> \notin Range(NewFailures))
          => /\ \E r \in RollbackFailedReasons : NewFailures = <<<<Name(s), r>>>>
             /\ OtherFiles(mods', s) = OtherFiles(mods, s)
             /\ UNCHANGED <<updated_mods, skipped_mods, newly_added_mods>>]_vars

\* the file at path f is the same before and after the step
SamePath(f) ==
    /\ Exists(mods', f) <=> Exists(mods, f)
    /\ Exists(mods, f) => mods'[f] = mods[f]

\* C24: within one run of managers/mod.py the resolved entries have distinct
\* target paths, and no step of one task (write or rollback) changes the
\* path another task of the run has written.
C24_DistinctPaths ==
    [][impl = "managers" =>
          \A s \in DOMAIN mod_info : \A o \in (DOMAIN mod_info) \ {s} :
              /\ File(s) # File(o)
              /\ (NewEvents(s) # <<>> /\ Has(o, "write")) => SamePath(File(o))]_vars

\* the aggregate report notifications of the run
Reports == SelectSeq(notes, LAMBDA n : n.title = "Mod Updates")

\* C25: every run of update_mods of managers/mod.py ends, and when it returns
\* it has sent exactly one aggregate report notification, also when every
\* mod failed.
C25_RunEndsWithOneReport ==
    (impl = "managers" /\ phase = "resolving")
        ~> (phase = "raised" \/ (phase = "returned" /\ Len(Reports) = 1))

ReportTitles == {"Mod Updates", "Mod Update Summary"}

\* the step sends the aggregate report of the run
SendsReport == Len(notes') = Len(notes) + 1 /\ Last(notes').title \in ReportTitles

\* C26: a mod whose resolution failed for want of a compatible release is
\* listed as failed in the aggregate report of the run (managers/mod.py and
\* MinecraftModManager.py).
C26_ResolutionFailureReported ==
    [][(impl \in {"managers", "legacy"} /\ SendsReport) =>
          \A i \in DOMAIN res_failed :
              res_failed[i][2] = "no compatible version" =>
                  \E j \in DOMAIN ReportedFailed : ReportedFailed[j][1] = res_failed[i][1]]_vars

\* update_mods is over and fetch_latest_versions resolved no mod
EndedUnresolved ==
    /\ impl \in {"managers", "legacy"}
    /\ phase \in {"returned", "raised"}
    /\ DOMAIN mod_info = {}

\* C27: when no source resolves, update_mods (managers/mod.py and
\* MinecraftModManager.py) returns without raising, its last notification is
\* the one 'Mod Updates' report, not flagged as an error, and no task was
\* started: no backup, download or startup probe.
C27_NothingResolved ==
    EndedUnresolved =>
        /\ phase = "returned"
        /\ Last(notes) = [title |-> "Mod Updates", is_error |-> FALSE]
        /\ Len(Reports) = 1
        /\ \A s \in Sources : events[s] = <<>> /\ pc[s] = "none"
        /\ updated_mods = <<>> /\ failed_mods = <<>> /\ newly_added_mods = <<>>

C27_Witness ==
    /\ impl = "managers"
    /\ phase = "returned"
    /\ DOMAIN mod_info = {}
    /\ Len(res_failed) = Cardinality(Sources)
    /\ \E i \in DOMAIN res_failed : res_failed[i][2] = "no compatible version"
    /\ Len(notes) = 2

\* the step is a call of update_mods that raises before any task exists
AbortedCall ==
    /\ impl \in {"managers", "legacy"}
    /\ phase \in {"idle", "returned"}
    /\ run' = run + 1
    /\ phase' # "resolving"

\* C28: an exception that escapes inside update_mods (managers/mod.py and
\* MinecraftModManager.py) is reported once, as an error notification, and
\* reaches the caller.
C28_EscapeReported ==
    [][AbortedCall =>
          /\ phase' = "raised"
          /\ notes' = <<[title |-> "Mod Update Error", is_error |-> TRUE]>>]_vars

C28_Witness ==
    /\ impl = "managers"
    /\ run = MaxRuns
    /\ phase = "raised"
    /\ notes = <<[title |-> "Mod Update Error", is_error |-> TRUE]>>
    /\ \A s \in Sources : events[s] = <<>> /\ pc[s] = "none"


\* the entries of res_failed a step has added
NewResFailed == SubSeq(res_failed', Len(res_failed) + 1, Len(res_failed'))

\* the other entries of the resolved mapping
OtherInfo(info, s) == [o \in (DOMAIN info) \ {s} |-> info[o]]

\* C29: whatever release list the registry answers for a mod, the one whose
\* selected compatible release lists no file included, the step that resolves
\* the mod ends inside _fetch_mod_info: update_mods does not raise, the mod is
\* resolved or has exactly one failure recorded for it and no mapping entry,
\* the entries and the progress of the other mods are as they were; the
\* failure recorded for an empty files list is the index error's, and no entry
\* is stored with it.
C29_EmptyFilesIsResolutionFailure ==
    [][\A s \in Sources :
         (phase = "resolving" /\ pc[s] = "resolve" /\ pc'[s] # "resolve")
         => /\ pc'[s] = "resolved"
            /\ phase' = "resolving"
            /\ notes' = notes
            /\ \A o \in Sources \ {s} : pc'[o] = pc[o]
            /\ OtherInfo(mod_info', s) = OtherInfo(mod_info, s)
            /\ IF s \in DOMAIN mod_info'
               THEN NewResFailed = <<>>
               ELSE /\ Len(NewResFailed) = 1
                    /\ NewResFailed[1][1] \in {s, Title(s)}
            /\ (<<s, "list index out of range">> \in Range(NewResFailed)
                  => mod_info' = mod_info)]_vars

\* the release selected for s2 listed no file: s2 has the index error recorded
\* and no entry, the run went on and s1, of the same chunk, was resolved and
\* updated
C29_Witness ==
    /\ phase = "returned"
    /\ res_failed = <<<<"s2", "list index out of range">>>>
    /\ DOMAIN mod_info = {"s1"}
    /\ pc["s1"] = "done"
    /\ Name("s1") \in Range(updated_mods)


FailedPosts == SelectSeq(posts, LAMBDA p : ~Delivered(p.outcome))

ErrorLines == SelectSeq(logged, LAMBDA l : l.level = "error")

\* C30: send_discord_notification, in its three revisions, never raises:
\* every request that ends with a timeout, a connection error or a status
\* other than 200 and 204 leaves one error line in the log and the call
\* returns; a request that ends with 200 or 204 leaves none; and with no
\* webhook URL no request is sent.
C30_NotificationNeverRaises ==
    /\ notify_pc # "raised"
    /\ Len(ErrorLines) = Len(FailedPosts)
    /\ webhook_url = "" => posts = <<>>
    /\ \A i \in DOMAIN posts : posts[i].description_len <= DISCORD_MAX_LENGTH

\* a call whose request timed out and a call the webhook answered with 500,
\* both returned and both logged
C30_Witness ==
    /\ notify_impl = "managers"
    /\ notify_pc = "returned"
    /\ Len(posts) = 2
    /\ posts[1].outcome.exc = "Timeout"
    /\ posts[2].outcome.status = 500
    /\ logged = <<[level |-> "error", text |-> "Discord notification timed out"],
                  [level |-> "error", text |-> "Failed to send Discord notification"]>>


\* C31: ModManager.session is None after construction and after the async
\* context is left, and is an open session, the one the last __aenter__
\* created, inside it; a call of make_request or fetch_latest_versions made
\* while session is None ends with RuntimeError and issues no request.
C31_SessionFollowsContext ==
    /\ [](in_context <=> session # NoSession)
    /\ [](in_context => session = opened /\ session \notin closed)
    /\ [][(Len(session_calls') = Len(session_calls) + 1 /\ session = NoSession)
            => /\ Last(session_calls').result = "RuntimeError"
               /\ net_requests' = net_requests]_vars

\* the context was entered and left, then both functions were called
C31_Witness ==
    /\ ~in_context
    /\ session = NoSession
    /\ closed = {1}
    /\ net_requests = 0
    /\ session_calls = <<SessionCall("make_request", "RuntimeError"),
                         SessionCall("fetch_latest_versions", "RuntimeError")>>


StepRank(step) ==
    CASE step = "warn" -> 1
      [] step = "stop" -> 2
      [] step = "backup" -> 3
      [] step = "update" -> 4
      [] OTHER -> 5

Reported(step, ok, before) ==
    \E i \in DOMAIN steps : i < before /\ steps[i] = Step(step, ok)

FailedAfterStop ==
    /\ maint_impl \in {"manager", "app"}
    /\ maint_pc = "end"
    /\ Step("stop", TRUE) \in Range(steps)
    /\ Step("backup", FALSE) \in Range(steps) \/ Step("update", FALSE) \in Range(steps)

\* C37: when run_automated_update (minecraft_mod_manager.py, app.py) has
\* stopped the server and the backup or update_mods then fails, the run ends
\* raised, its last notification is the error notification 'Update Failed',
\* sent once, no start of the server was attempted and the server is stopped.
C37_FailureLeavesServerStopped ==
    FailedAfterStop =>
        /\ maint_result = "raised"
        /\ Last(maint_notes) = [title |-> "Update Failed", is_error |-> TRUE]
        /\ Len(SelectSeq(maint_notes, LAMBDA n : n.title = "Update Failed")) = 1
        /\ \A i \in DOMAIN steps : steps[i].step # "start"
        /\ ~server_up

\* update_mods raised after the stop and the backup had succeeded
C37_Witness ==
    /\ maint_impl = "manager"
    /\ maint_result = "raised"
    /\ steps = <<Step("warn", TRUE), Step("stop", TRUE), Step("backup", TRUE),
                 Step("update", FALSE)>>
    /\ maint_notes = <<[title |-> "Update Started", is_error |-> FALSE],
                       [title |-> "Update Failed", is_error |-> TRUE]>>


\* the nested entry that corresponds to each flat field
FlatPairs ==
    {<<"paths.server", "server_path">>, <<"paths.mods", "mods_path">>,
     <<"paths.backups", "backups_path">>, <<"paths.logs", "logs_path">>,
     <<"server.jar", "server_jar">>, <<"server.java_flags", "java_flags">>,
     <<"server.stop_command", "stop_command">>,
     <<"server.max_stop_wait", "max_stop_wait">>,
     <<"minecraft.version", "minecraft_version">>,
     <<"minecraft.modloader", "modloader">>,
     <<"mods.chunk_size", "chunk_size">>, <<"mods.max_retries", "max_retries">>,
     <<"mods.base_delay", "base_delay">>,
     <<"mods.sources.modrinth", "modrinth_mods">>,
     <<"mods.sources.curseforge", "curseforge_mods">>,
     <<"backup.max_mod_backups", "max_backups">>,
     <<"backup.name_format", "backup_name_format">>,
     <<"notifications.discord_webhook", "discord_webhook">>,
     <<"notifications.warning_template", "warning_template">>,
     <<"notifications.warning_intervals", "warning_intervals">>}

ProbeSleeping(a) == impl = "managers" /\ pc[a] = "probe" /\ elapsed[a] >= 1

\* the step starts the probe of b
StartsProbe(b) == pc[b] # "probe" /\ pc'[b] = "probe"

\* C34: while the startup probe of one mod is running (it is suspended in
\* its wait loop), no step of the task of another mod writes a mod file,
\* restores or removes one in a rollback, or starts a probe of its own: the
\* write -> verify -> rollback section is executed by one task at a time.
C34_ProbeRunsAlone ==
    [][\A a \in Sources : \A b \in Sources \ {a} :
          (ProbeSleeping(a) /\ pc'[a] = "probe" /\ (pc'[b] # pc[b] \/ NewEvents(b) # <<>>))
          => /\ mods' = mods
             /\ ~StartsProbe(b)]_vars


\* C35: when the startup verification of an Add fails (the target path was
\* free when the task began, so no backup was made), the downloaded file is
\* gone from the mods directory in the state in which the mod is recorded
\* as failed, and the step has added no other file to the directory.
C35_FailedAddRemoved ==
    [][\A s \in Sources :
          (VerificationFailed(s) /\ ~HadLocal(s) /\ Has(s, "write"))
          => /\ FailedFor(Name(s))'
             /\ ~Exists(mods', File(s))
             /\ DOMAIN OtherFiles(mods', s) \subseteq DOMAIN OtherFiles(mods, s)]_vars


\* the step in which _backup_mod returns the path of the backup it made
BackupMade(s) ==
    /\ impl = "managers"
    /\ s \in DOMAIN mod_info
    /\ NewEvents(s) # <<>>
    /\ NewEvents(s)[1] = "backup"

\* C36: after every call of _backup_mod that returned a path, the backup
\* directory of the mod holds at most max_mod_backups files, the backup
\* just made is among them, and it is the one _rollback_mod would take as
\* the latest; for every max_mod_backups >= 0.
C36_BackupKeptAndLatest ==
    [][\A s \in Sources :
          BackupMade(s) =>
              LET bd == bdirs'[Name(s)]
                  b == BackupPath(File(s), clock)
              IN /\ Cardinality(DOMAIN bd) <= max_mod_backups
                 /\ b \in DOMAIN bd
                 /\ LatestBackups(bd) = {b}]_vars


\* ---------------------------------------------------------------------------
\* ServerController (controllers/server.py)
\* ---------------------------------------------------------------------------

\* the control calls of the given kind that have returned
Calls(action) == {i \in DOMAIN control_log : control_log[i].action = action}

\* C38: whatever control calls are made, every server process that runs is
\* the one the controller tracks, so at most one runs; a 'start' made while
\* verify_status() is true spawns no process and returns True; a 'stop' made
\* while no server runs returns True and changes nothing; and when a 'stop'
\* has returned True, verify_status() is False.
C38_OneTrackedProcess ==
    /\ alive \subseteq {process}
    /\ Cardinality(alive) <= 1
    /\ \A i \in Calls("start") :
          control_log[i].running =>
              control_log[i].spawned = 0 /\ control_log[i].result
    /\ \A i \in Calls("stop") :
          /\ ~control_log[i].running =>
                control_log[i].result /\ ~control_log[i].changed
          /\ control_log[i].result => ~control_log[i].after

C38_Witness ==
    /\ \E i \in Calls("start") : control_log[i].running
    /\ \E i \in Calls("stop") : ~control_log[i].running
    /\ \E i \in Calls("stop") : control_log[i].running /\ control_log[i].result

\* C39: waiting for the startup of the server always ends: once control has
\* entered _wait_for_startup it returns, with "Done" found, with the error
\* of a process that died, or with the timeout error.
C39_StartupWaitEnds == (server_pc # "idle") ~> (server_pc = "idle")

====
